---------------------------- MODULE Spec2Model ----------------------------
(***************************************************************************)
(* InterestLens personalization engine: the scoring formula, the profile   *)
(* store and its updaters, and the analyze_page pipeline.                   *)
(*                                                                         *)
(* Fixed-point conventions (TLC has integers only):                        *)
(*   affinities            hundredths   (30 is 0.3)                        *)
(*   intensity, prominence tenths       (8 is 0.8)                         *)
(*   vector components     hundredths   (100 is 1.0)                       *)
(*   sigmoid / cosine out  1/10000      (5000 is 0.5)                      *)
(*   sigmoid argument      1/10000      (2500 is 0.25)                     *)
(*   voice modifier        tenths of a score point                         *)
(***************************************************************************)
EXTENDS Integers, Sequences, FiniteSets, TLC

VARIABLES
    store,      \* the Redis record user:<id> : << >> or << profile >>
    wpc,        \* writer -> "idle" | "loaded"
    wupd,       \* writer -> the update it is carrying out (or carried out last)
    wsnap,      \* writer -> what it read (get_user_profile result)
    wout,       \* writer -> << >> or << the profile it wrote last >>
    log,        \* the updates whose write has reached the store, in write order
    started,    \* number of updates begun so far
    stage,      \* analyze_page position
    nItems,     \* number of items in the request
    outage,     \* the external services that may fail during this request
    extracted,  \* item -> "none" | "ok" | "fallback" : the extractor's result
    launched,   \* items whose process_item task has been created
    clsFail,    \* items whose classify_topics call failed
    embFail,    \* items whose get_embedding call failed
    explFail,   \* items whose explanation call failed
    reqProfile, \* profile snapshot the scorer read
    results,    \* gather's result list: slot -> << >> or << scored item >>
    nDone,      \* number of process_item tasks that have completed
    ranked,     \* the scorer's ranked list, << >> until the join
    response,   \* the AnalyzeResponse items, << >> until built
    caller,     \* "user" (request carries a user id) or "anonymous"
    ackedBefore, \* number of profile updates acknowledged when the request arrived
    summary,    \* the AnalyzeResponse profile_summary: << >> is null
    cache,      \* the Redis string keys: key -> [value, expires]
    cacheUp,    \* whether the Redis store can be reached
    now,        \* the clock, in seconds
    cpc,        \* get_embedding call -> "idle" | "missed"
    carg,       \* get_embedding call -> its arguments [text, item_id]
    cout,       \* get_embedding call -> << >> or << its last lookup >>
    lastPut,    \* text -> << >> or << [emb, at] >> : the last embedding cached for it
    sFp,        \* scoring harness: the fingerprint
    sProf,      \* scoring harness: the profile
    sOut,       \* scoring harness: << >> or << [base, final] >>
    csDom,          \* content script: element -> [status, dataId, hl, badge]
    csCurrentItems, \* content script: currentItems, item index -> element or 0
    csIsAnalyzing,  \* content script: isAnalyzing
    csRuns,         \* extractAndAnalyze runs awaiting their ANALYZE_PAGE response
    csTimers,       \* pending setTimeout(extractAndAnalyze, 1000) timers
    csRendered,     \* the scored list of the last renderHighlights call
    csLoaded,       \* whether initialize() has run
    csLastEnd,      \* how the last finished run ended
    csOwed,         \* a notification arrived and no run has started since
    csBatches,      \* number of mutation batches delivered so far
    csBurstRuns,    \* runs started by the timers of the current burst
    swAuthState,     \* service worker: authState.token, << >> or << token >>
    swStorage,       \* chrome.storage.local authToken, << >> or << token >>
    swStartup,       \* "pending" until the startup read's callback has run
    swStartupResult, \* what the startup read returns
    swLoggedOut,     \* LOGOUT handled and no AUTH_SUCCESS since
    swLast,          \* the message handled last and what the handler did
    rwsUrlOk,            \* whether new WebSocket(url) accepts the url
    rwsWs,               \* state of this.ws
    rwsOld,              \* earlier sockets that are still live
    rwsRetryCount,       \* retryCount
    rwsIsConnecting,     \* isConnecting
    rwsShouldReconnect,  \* shouldReconnect
    rwsTimers,           \* pending reconnect timers
    rwsClosed,           \* close() has been called
    rwsOpenedAfterClose, \* a WebSocket was constructed after close()
    rwsCustomOnError,    \* createWebSocketConnection was given its own onError
    rwsSessionCleared,   \* the socket's onError has called clearSession
    rwsExpiredCalled,    \* the caller's onSessionExpired has been invoked
    rwsFailedAtMax,      \* an attempt failed with retryCount at maxRetries or above
    rwsScheduledAfter,   \* scheduleReconnect ran after such a failure
    vsStorage,  \* localStorage entries of the voice session
    vsNow,      \* Date.now()
    vsCall,     \* the getValidSession call: position, snapshot and result
    trBuffer,     \* tracker.js activityBuffer, activities named by their number
    trInFlight,   \* the bufferToSync of every syncToBackend awaiting its fetch
    trNextId,     \* the number the next activity gets
    trDelivered,  \* activities the backend answered OK for
    trOverlapped  \* a syncToBackend started while another awaited its fetch

vars == << store, wpc, wupd, wsnap, wout, log, started, stage, nItems,
           outage, extracted, launched, clsFail, embFail, explFail,
           reqProfile, results, nDone, ranked, response, caller, summary,
           ackedBefore, cache, cacheUp, now, cpc, carg, cout, lastPut, sFp, sProf, sOut,
           csDom, csCurrentItems, csIsAnalyzing, csRuns, csTimers, csRendered,
           csLoaded, csLastEnd, csOwed, csBatches, csBurstRuns,
           swAuthState, swStorage, swStartup, swStartupResult, swLoggedOut, swLast,
           rwsUrlOk, rwsWs, rwsOld, rwsRetryCount, rwsIsConnecting,
           rwsShouldReconnect, rwsTimers, rwsClosed, rwsOpenedAfterClose,
           rwsCustomOnError, rwsSessionCleared, rwsExpiredCalled, rwsFailedAtMax,
           rwsScheduledAfter,
           vsStorage, vsNow, vsCall,
           trBuffer, trInFlight, trNextId, trDelivered, trOverlapped >>

profileVars  == << store, wpc, wupd, wsnap, wout, log, started >>
pipelineVars == << stage, nItems, outage, extracted, launched, clsFail,
                   embFail, explFail, reqProfile, results, nDone, ranked,
                   response, caller, summary, ackedBefore >>
scoreVars    == << sFp, sProf, sOut >>
cacheVars    == << cache, cacheUp, now, cpc, carg, cout, lastPut >>
contentVars  == << csDom, csCurrentItems, csIsAnalyzing, csRuns, csTimers,
                   csRendered, csLoaded, csLastEnd, csOwed, csBatches,
                   csBurstRuns >>
workerVars   == << swAuthState, swStorage, swStartup, swStartupResult,
                   swLoggedOut, swLast >>
socketVars   == << rwsUrlOk, rwsWs, rwsOld, rwsRetryCount, rwsIsConnecting,
                   rwsShouldReconnect, rwsTimers, rwsClosed,
                   rwsOpenedAfterClose, rwsCustomOnError, rwsSessionCleared,
                   rwsExpiredCalled, rwsFailedAtMax, rwsScheduledAfter >>
sessionVars  == << vsStorage, vsNow, vsCall >>
trackerVars  == << trBuffer, trInFlight, trNextId, trDelivered, trOverlapped >>
extensionVars == << contentVars, workerVars, socketVars, sessionVars,
                   trackerVars >>

---------------------------------------------------------------------------
(* Bounds of the model *)

MaxItems == 4
MaxUpdates == 3
MaxTicks == 3

---------------------------------------------------------------------------
(* Strings *)

Keys == {"AI", "ai", "crypto", "sports", "other", "llm", "nft"}
Domains == {"github.com", "example.com"}

\* a Python dict: a function whose domain is the set of keys present
EmptyDict == [k \in {} |-> 0]
DictGet(d, k, default) == IF k \in DOMAIN d THEN d[k] ELSE default
DictSet(d, k, v) == [x \in (DOMAIN d) \cup {k} |-> IF x = k THEN v ELSE d[x]]

\* str.lower()
Lower(s) ==
    IF s = "AI" THEN "ai"
    ELSE IF s = "LLM" THEN "llm"
    ELSE IF s = "NFT" THEN "nft"
    ELSE s

\* sub.lower() in text.lower(), the text being a sequence of words
TextContains(text, sub) ==
    \E k \in 1..Len(text) : Lower(text[k]) = Lower(sub)

\* topic.lower() in [t.lower() for t in topics]
TopicListed(topics, topic) ==
    \E t \in topics : Lower(t) = Lower(topic)

---------------------------------------------------------------------------
(* Arithmetic helpers *)

Max(a, b) == IF a >= b THEN a ELSE b
Min(a, b) == IF a <= b THEN a ELSE b
Abs(a) == IF a >= 0 THEN a ELSE 0 - a

\* sum(d.get(x, 0) for x in S)
RECURSIVE SumOver(_, _)
SumOver(d, S) ==
    IF S = {} THEN 0
    ELSE LET x == CHOOSE y \in S : TRUE
         IN  (IF x \in DOMAIN d THEN d[x] ELSE 0) + SumOver(d, S \ {x})

\* floor(10000 * sigmoid(k/4)) for k = 0..40
SigmoidTable ==
    << 5000, 5621, 6224, 6791, 7310, 7772, 8175, 8519,
       8807, 9046, 9241, 9399, 9525, 9626, 9706, 9770,
       9820, 9859, 9890, 9914, 9933, 9947, 9959, 9968,
       9975, 9980, 9984, 9988, 9990, 9992, 9994, 9995,
       9996, 9997, 9997, 9998, 9998, 9999, 9999, 9999,
       9999 >>

\* sigmoid for x >= 0: linear interpolation on the table, 9999 up to the
\* point where a double rounds to 1.0 (x >= 37), 10000 from there on
SigmoidPos(x) ==
    IF x >= 370000 THEN 10000
    ELSE IF x >= 100000 THEN 9999
    ELSE LET k  == x \div 2500
             r  == x % 2500
             lo == SigmoidTable[k + 1]
             hi == SigmoidTable[k + 2]
         IN  lo + ((hi - lo) * r) \div 2500

\* sigmoid(x) = 1 / (1 + exp(-x)); argument and result scaled by 10000
sigmoid(x) == IF x >= 0 THEN SigmoidPos(x) ELSE 10000 - SigmoidPos(0 - x)

Isqrt(x) == CHOOSE r \in 0..200 : r * r <= x /\ x < (r + 1) * (r + 1)

Dot(a, b) == a[1] * b[1] + a[2] * b[2]

ZeroVec == << 0, 0 >>

\* cosine of two 2-d vectors, scaled by 10000; 0 when either norm is 0
cosine_similarity(a, b) ==
    LET na == Isqrt(Dot(a, a))
        nb == Isqrt(Dot(b, b))
    IN  IF na = 0 \/ nb = 0 THEN 0
        ELSE Max(-10000, Min(10000, (Dot(a, b) * 10000) \div (na * nb)))

---------------------------------------------------------------------------
(* Data model *)

\* UserProfile() : the default profile created on first access
DefaultProfile ==
    [ topic_affinity  |-> EmptyDict,
      domain_affinity |-> EmptyDict,
      user_text_vector |-> ZeroVec,
      voice_preferences |-> << >>,
      voice_onboarding_complete |-> FALSE,
      interaction_count |-> 0 ]

\* a ContentFingerprint
Fingerprint(id, text, domain, topics, emb, prom) ==
    [ id |-> id, text |-> text, domain |-> domain, topics |-> topics,
      text_embedding |-> emb, image_embedding |-> << >>, prominence |-> prom ]

\* one entry of VoiceOnboardingResult.topics
TopicPref(topic, sentiment, intensity, subs, avoid) ==
    [ topic |-> topic, sentiment |-> sentiment, intensity |-> intensity,
      subtopics |-> subs, avoid_subtopics |-> avoid ]

---------------------------------------------------------------------------
(* Scoring *)

W_TEXT == 35
W_TOPIC == 30
W_DOMAIN == 15
W_PROMINENCE == 10
W_IMAGE == 10

\* the affinity sum with its sign turned
TopicSumNegated(item, profile) == 0 - SumOver(profile.topic_affinity, item.topics)

\* profile.topic_affinity.get(t, 0) summed over the item's topics
TopicSum(item, profile) == SumOver(profile.topic_affinity, item.topics)

\* profile.domain_affinity.get(item.domain, 0.5), scaled by 10000
DomainScore(item, profile) ==
    IF item.domain \in DOMAIN profile.domain_affinity
    THEN profile.domain_affinity[item.domain] * 100
    ELSE 5000

\* the weighted sum, scaled by 1000000
RawScore(item, profile) ==
    LET sim_text   == cosine_similarity(item.text_embedding, profile.user_text_vector)
        topic_score == sigmoid(TopicSum(item, profile) * 100)
        domain_score == DomainScore(item, profile)
        prominence_score == item.prominence * 1000
        sim_image == 5000
    IN  W_TEXT * sim_text + W_TOPIC * topic_score + W_DOMAIN * domain_score
        + W_PROMINENCE * prominence_score + W_IMAGE * sim_image

\* int(sigmoid(raw_score * 5) * 100)
calculate_score(item, profile) ==
    sigmoid(RawScore(item, profile) \div 20) \div 100

\* the contribution of one topic preference, in tenths of a point
RECURSIVE SubtopicHits(_, _)
SubtopicHits(text, subs) ==
    IF subs = << >> THEN 0
    ELSE (IF TextContains(text, Head(subs)) THEN 1 ELSE 0)
         + SubtopicHits(text, Tail(subs))

\* the modifier with the dislike penalty at the like bonus's size
PrefModifierSoftDislike(item, pref) ==
    (IF TopicListed(item.topics, pref.topic)
     THEN (IF pref.sentiment = "like" THEN pref.intensity * 15
           ELSE IF pref.sentiment = "dislike" THEN 0 - pref.intensity * 15
           ELSE 0)
     ELSE 0)
    + SubtopicHits(item.text, pref.subtopics) * pref.intensity * 10
    - SubtopicHits(item.text, pref.avoid_subtopics) * 150

PrefModifier(item, pref) ==
    (IF TopicListed(item.topics, pref.topic)
     THEN (IF pref.sentiment = "like" THEN pref.intensity * 15
           ELSE IF pref.sentiment = "dislike" THEN 0 - pref.intensity * 20
           ELSE 0)
     ELSE 0)
    + SubtopicHits(item.text, pref.subtopics) * pref.intensity * 10
    - SubtopicHits(item.text, pref.avoid_subtopics) * 150

RECURSIVE VoiceModifier(_, _)
VoiceModifier(item, prefs) ==
    IF prefs = << >> THEN 0
    ELSE PrefModifier(item, Head(prefs)) + VoiceModifier(item, Tail(prefs))

\* the final score with the clamp left out
UnclampedScore(base, modifier) == (base * 10 + modifier) \div 10

\* int(max(0, min(100, base_score + voice_modifier)))
ClampScore(base, modifier) ==
    Max(0, Min(1000, base * 10 + modifier)) \div 10

calculate_score_with_voice_prefs(item, profile) ==
    LET base_score == calculate_score(item, profile)
    IN  IF profile.voice_preferences = << >> THEN base_score
        ELSE ClampScore(base_score, VoiceModifier(item, profile.voice_preferences))

---------------------------------------------------------------------------
(* Profile updates *)

Writers == {"w1", "w2"}

\* alpha * user_text_vector + (1 - alpha) * clicked_item_embedding, alpha = 0.85
ALPHA_PCT == 85
EmaVector(v, e) ==
    << (ALPHA_PCT * v[1] + (100 - ALPHA_PCT) * e[1]) \div 100,
       (ALPHA_PCT * v[2] + (100 - ALPHA_PCT) * e[2]) \div 100 >>

CLICK_DELTA == 30
THUMBS_DOWN_DELTA == 10

\* topic_affinity[topic] += delta, for each topic of the item
RECURSIVE BumpTopics(_, _, _)
BumpTopics(ta, topics, delta) ==
    IF topics = {} THEN ta
    ELSE LET t == CHOOSE x \in topics : TRUE
         IN  BumpTopics(DictSet(ta, t, DictGet(ta, t, 0) + delta),
                        topics \ {t}, delta)

\* a click that rebuilds the affinities from the clicked item alone
ApplyClickReset(profile, ev) ==
    [ profile EXCEPT
        !.user_text_vector = EmaVector(profile.user_text_vector, ev.embedding),
        !.topic_affinity = BumpTopics(EmptyDict, ev.topics, CLICK_DELTA) ]

\* the click rule: EMA on the text vector, +0.3 on each topic of the item
ApplyClick(profile, ev) ==
    [ profile EXCEPT
        !.user_text_vector = EmaVector(profile.user_text_vector, ev.embedding),
        !.topic_affinity = BumpTopics(profile.topic_affinity, ev.topics, CLICK_DELTA) ]

\* a thumbs-down that also pulls the text vector toward the item
ApplyThumbsDownEma(profile, ev) ==
    [ profile EXCEPT
        !.user_text_vector = EmaVector(profile.user_text_vector, ev.embedding),
        !.topic_affinity =
            BumpTopics(profile.topic_affinity, ev.topics, 0 - THUMBS_DOWN_DELTA) ]

\* the thumbs-down rule: -0.1 on each topic of the item
ApplyThumbsDown(profile, ev) ==
    [ profile EXCEPT
        !.topic_affinity =
            BumpTopics(profile.topic_affinity, ev.topics, 0 - THUMBS_DOWN_DELTA) ]

applyEvent(profile, ev) ==
    IF ev.kind = "click" THEN ApplyClick(profile, ev)
    ELSE ApplyThumbsDown(profile, ev)

\* profile.topic_affinity[k] = v for each k of a list, in order
RECURSIVE SetAll(_, _, _)
SetAll(ta, ks, v) ==
    IF ks = << >> THEN ta
    ELSE SetAll(DictSet(ta, Head(ks), v), Tail(ks), v)

\* weight = intensity, negated for "dislike"; in hundredths
PrefWeight(pref) ==
    IF pref.sentiment = "dislike" THEN 0 - pref.intensity * 10
    ELSE pref.intensity * 10

AVOID_WEIGHT == 50

\* the loop body adding the weight to the topic's affinity
MergeTopicPrefAdditive(ta, pref) ==
    LET weight == PrefWeight(pref)
        t1 == DictSet(ta, pref.topic, DictGet(ta, pref.topic, 0) + weight)
        t2 == SetAll(t1, pref.subtopics, (weight * 8) \div 10)
    IN  SetAll(t2, pref.avoid_subtopics, 0 - AVOID_WEIGHT)

\* the body of the loop of save_preferences for one topic preference
MergeTopicPref(ta, pref) ==
    LET weight == PrefWeight(pref)
        t1 == DictSet(ta, pref.topic, weight)
        t2 == SetAll(t1, pref.subtopics, (weight * 8) \div 10)
    IN  SetAll(t2, pref.avoid_subtopics, 0 - AVOID_WEIGHT)

RECURSIVE MergePrefs(_, _)
MergePrefs(ta, prefs) ==
    IF prefs = << >> THEN ta
    ELSE MergePrefs(MergeTopicPref(ta, Head(prefs)), Tail(prefs))

\* save_preferences between its read and its write
save_preferences(profile, prefs) ==
    [ profile EXCEPT
        !.topic_affinity = MergePrefs(profile.topic_affinity, prefs),
        !.voice_onboarding_complete = TRUE,
        !.voice_preferences = prefs ]

\* get_user_profile(user_id) or UserProfile()
ProfileOrDefault(stored) == IF stored = << >> THEN DefaultProfile ELSE stored[1]

\* the event handler between its read and its write
RecordEvent(profile, ev) ==
    [ applyEvent(profile, ev) EXCEPT
        !.interaction_count = profile.interaction_count + 1 ]

\* what one update writes, given what it read
UpdateResult(stored, u) ==
    IF u.kind = "voice" THEN save_preferences(ProfileOrDefault(stored), u.prefs)
    ELSE RecordEvent(ProfileOrDefault(stored), u)

\* the stored record after the update u has been applied n times in a row
RECURSIVE Repeat(_, _, _)
Repeat(stored, u, n) ==
    IF n = 0 THEN stored ELSE Repeat(<< UpdateResult(stored, u) >>, u, n - 1)

---------------------------------------------------------------------------
(* Sample data: the page items and the voice onboarding results *)

\* the page item with index i, as the content script extracts it and the
\* classification and embedding services describe it
ItemText(i) ==
    CASE i % 4 = 1 -> << "Show", "HN", "AI", "LLM" >>
      [] i % 4 = 2 -> << "NFT", "drop", "news" >>
      [] i % 4 = 3 -> << "coin", "markets", "today" >>
      [] OTHER     -> << "match", "report" >>

ItemTopics(i) ==
    CASE i % 4 = 1 -> {"AI"}
      [] i % 4 = 2 -> {"crypto"}
      [] i % 4 = 3 -> {"crypto"}
      [] OTHER     -> {"sports", "other"}

ItemDomain(i) ==
    CASE i % 4 = 1 -> "github.com"
      [] i % 4 = 2 -> "example.com"
      [] i % 4 = 3 -> "example.com"
      [] OTHER     -> ""

ItemEmbedding(i) ==
    CASE i % 4 = 1 -> << 100, 0 >>
      [] i % 4 = 2 -> << 0, 100 >>
      [] i % 4 = 3 -> << 0, 100 >>
      [] OTHER     -> << -60, 80 >>

ItemProminence(i) ==
    CASE i % 4 = 1 -> 8
      [] i % 4 = 2 -> 5
      [] i % 4 = 3 -> 5
      [] OTHER     -> 2

VoiceDislikeCrypto == << TopicPref("crypto", "dislike", 8, << >>, << "nft" >>) >>
VoiceLikeAi == << TopicPref("ai", "like", 10, << "llm" >>, << >>) >>
VoiceBoth == VoiceLikeAi \o VoiceDislikeCrypto

Event(kind, i) ==
    [ kind |-> kind, topics |-> ItemTopics(i), embedding |-> ItemEmbedding(i),
      prefs |-> << >> ]

Onboarding(prefs) ==
    [ kind |-> "voice", topics |-> {}, embedding |-> ZeroVec, prefs |-> prefs ]

EventUpdates == { Event("click", 1), Event("click", 2), Event("thumbs_down", 1) }
VoiceUpdates == { Onboarding(VoiceDislikeCrypto), Onboarding(VoiceLikeAi) }

---------------------------------------------------------------------------
(* The profile store and its writers *)

ProfileInit ==
    /\ store = << >>
    /\ wpc = [w \in Writers |-> "idle"]
    /\ wupd = [w \in Writers |-> Event("click", 1)]
    /\ wsnap = [w \in Writers |-> << >>]
    /\ wout = [w \in Writers |-> << >>]
    /\ log = << >>
    /\ started = 0

\* POST /event : the handler starts and reads the profile
RecordEventRead(w) ==
    /\ wpc[w] = "idle"
    /\ started < MaxUpdates
    /\ \E u \in EventUpdates : wupd' = [wupd EXCEPT ![w] = u]
    /\ wsnap' = [wsnap EXCEPT ![w] = store]
    /\ wpc' = [wpc EXCEPT ![w] = "loaded"]
    /\ started' = started + 1
    /\ UNCHANGED << store, wout, log >>

\* save_preferences : profile = await get_user_profile(user_id) or UserProfile()
SavePreferencesRead(w) ==
    /\ wpc[w] = "idle"
    /\ started < MaxUpdates
    /\ \E u \in VoiceUpdates : wupd' = [wupd EXCEPT ![w] = u]
    /\ wsnap' = [wsnap EXCEPT ![w] = store]
    /\ wpc' = [wpc EXCEPT ![w] = "loaded"]
    /\ started' = started + 1
    /\ UNCHANGED << store, wout, log >>

\* await store_user_profile(user_id, profile) : the whole record is replaced
StoreUserProfile(w) ==
    /\ wpc[w] = "loaded"
    /\ LET p == UpdateResult(wsnap[w], wupd[w])
       IN  /\ store' = << p >>
           /\ wout' = [wout EXCEPT ![w] = << p >>]
    /\ log' = Append(log, wupd[w])
    /\ wpc' = [wpc EXCEPT ![w] = "idle"]
    /\ UNCHANGED << wupd, wsnap, started >>

---------------------------------------------------------------------------
(* The embedding cache *)

CacheTasks == {"t1", "t2"}

\* 1 hour TTL
CACHE_TTL == 3600

\* json.dumps / json.loads of a list of floats
json_dumps(v) == [json |-> v]
json_loads(str) == str.json

\* f"embedding:{item_id}"
EmbeddingKey(text, item_id) == << "embedding", item_id >>

\* redis.get(key) at time t: << >> is None
redis_get(c, key, t) ==
    IF key \in DOMAIN c /\ t < c[key].expires THEN << c[key].value >> ELSE << >>

\* redis.setex(key, ttl, value) at time t
redis_setex(c, key, ttl, value, t) ==
    [k \in (DOMAIN c) \cup {key} |->
        IF k = key THEN [value |-> value, expires |-> t + ttl] ELSE c[k]]

\* genai.embed_content(content=text), the text being that of sample item tx
embed_content(tx) == ItemEmbedding(tx)

\* the cache read that ignores the outage
cache_get_ignoring_outage(key) == redis_get(cache, key, now)

\* the cache read of the Redis client: None when the store cannot be reached
cache_get(key) == IF cacheUp THEN redis_get(cache, key, now) ELSE << >>

\* the cache write of the Redis client: skipped when the store cannot be
\* reached
cache_setex(key, ttl, value) ==
    IF cacheUp THEN redis_setex(cache, key, ttl, value, now) ELSE cache

---------------------------------------------------------------------------
(* The analyze_page pipeline *)

Services == {"extractor", "classify", "embed", "explain"}

\* the only concurrency ceiling the repository states
MAX_CONCURRENT == 10

FallbackTopics == {"other"}

Items == 1..nItems

\* the outcomes an external call can have during this request
Outcomes(service) == IF service \in outage THEN {TRUE, FALSE} ELSE {TRUE}

\* analyze_page returning the scorer's result without the explainer
NextStageSkip(s) ==
    CASE s = "Extract" -> "Score"
      [] s = "Score"   -> "Done"
      [] OTHER         -> s

\* analyze_page awaits its three agents one after the other
NextStage(s) ==
    CASE s = "Extract" -> "Score"
      [] s = "Score"   -> "Explain"
      [] s = "Explain" -> "Done"
      [] OTHER         -> s

\* the extractor's per-item result; on a failed call every item is kept as
\* content (confidence 0.5)
ExtractorOutput(ok, n) == [i \in 1..n |-> IF ok THEN "ok" ELSE "fallback"]

\* a failed extractor call ending the request
PipelineExhaustedOnError(ok, n) == ~ok \/ n = 0

\* the request fails as a whole only when there is no item to score
PipelineExhausted(ok, n) == n = 0

\* a failed classification leaving the item without topics
TopicsNoFallback(i, ok) == IF ok THEN ItemTopics(i) ELSE {}

\* the topics process_item continues with
TopicsAfterClassify(i, ok) == IF ok THEN ItemTopics(i) ELSE FallbackTopics

\* the embedding process_item continues with
EmbeddingAfterEmbed(i, ok) == IF ok THEN ItemEmbedding(i) ELSE ZeroVec

\* get_embedding(item.text, item.id) inside process_item: the cached value
\* on a hit, else the embedding service's result (or its fallback)
ItemGetEmbedding(i, ok) ==
    LET cached == cache_get(EmbeddingKey(i, i))
    IN  IF cached # << >> THEN json_loads(cached[1]) ELSE EmbeddingAfterEmbed(i, ok)

\* the cache after get_embedding(item.text, item.id): a generated embedding
\* is stored
CacheAfterItem(i, ok) ==
    IF cache_get(EmbeddingKey(i, i)) = << >> /\ ok
    THEN cache_setex(EmbeddingKey(i, i), CACHE_TTL, json_dumps(embed_content(i)))
    ELSE cache

\* results collected in the order the tasks complete
GatherSlotAsCompleted(i, k) == k + 1

\* asyncio.gather: the result of the task created i-th is the i-th of the
\* list, whatever the number k of tasks that completed before it
GatherSlot(i, k) == i

\* asyncio.gather(*[process_item(item) for item in content_items]): the
\* tasks created by one call
GatherTasks(n) == 1..n

Completed == { results[sl][1].id : sl \in { x \in DOMAIN results : results[x] # << >> } }

InFlight == Cardinality(launched \ Completed)

\* the "why" of an item before the explainer has run
NoWhy == [kind |-> "none", about |-> {}]

\* process_item with a flat score for callers without a user id
ScoredItemLimitedMode(i, clsOk, embOk, profile) ==
    [ id |-> i, score |-> IF caller = "anonymous" THEN 50
                          ELSE calculate_score_with_voice_prefs(
                                   Fingerprint(i, ItemText(i), ItemDomain(i),
                                               TopicsAfterClassify(i, clsOk),
                                               ItemGetEmbedding(i, embOk),
                                               ItemProminence(i)), profile),
      topics |-> TopicsAfterClassify(i, clsOk), why |-> NoWhy ]

\* the scored item process_item returns
ScoredItem(i, clsOk, embOk, profile) ==
    LET fp == Fingerprint(i, ItemText(i), ItemDomain(i),
                          TopicsAfterClassify(i, clsOk),
                          ItemGetEmbedding(i, embOk), ItemProminence(i))
    IN  [ id |-> i, score |-> calculate_score_with_voice_prefs(fp, profile),
          topics |-> fp.topics, why |-> NoWhy ]

\* insertion of r behind every entry whose score is at least r's
InsertRanked(acc, r) ==
    LET pos == Cardinality({ j \in 1..Len(acc) : acc[j].score >= r.score })
    IN  SubSeq(acc, 1, pos) \o << r >> \o SubSeq(acc, pos + 1, Len(acc))

\* stable sort by descending score
RECURSIVE RankPrefix(_, _)
RankPrefix(list, k) ==
    IF k = 0 THEN << >> ELSE InsertRanked(RankPrefix(list, k - 1), list[k])

RankItems(list) == RankPrefix(list, Len(list))

\* an item whose explanation call failed is left without explanation
ExplainWhyNoFallback(item, ok) ==
    IF ok THEN [kind |-> "generated", about |-> item.topics] ELSE NoWhy

\* the explanation attached to an item: the generated text, or on failure
\* the template filled with the item's topics
ExplainWhy(item, ok) ==
    IF ok THEN [kind |-> "generated", about |-> item.topics]
    ELSE [kind |-> "template", about |-> item.topics]

\* get_user_profile(request.user_id): the record of the caller's user id; a
\* request without a user id finds none
get_user_profile(who) == IF who = "anonymous" THEN << >> ELSE store

\* a response that always carries the profile's topics
ProfileSummaryAlways(who, profile) == << DOMAIN profile.topic_affinity >>

\* AnalyzeResponse(items=..., weave_trace_url=...): profile_summary is not
\* passed and keeps its default, null
profile_summary(who, profile) == << >>

PipelineIdle ==
    /\ stage = "Idle"
    /\ nItems = 0
    /\ outage = {}
    /\ extracted = << >>
    /\ launched = {}
    /\ clsFail = {}
    /\ embFail = {}
    /\ explFail = {}
    /\ reqProfile = DefaultProfile
    /\ results = << >>
    /\ nDone = 0
    /\ ranked = << >>
    /\ response = << >>
    /\ caller = "user"
    /\ summary = << >>
    /\ ackedBefore = 0

\* a request has arrived and extractor_agent.run is awaited
RequestInit(sizes, outages, callers) ==
    /\ stage = "Extract"
    /\ nItems \in sizes
    /\ outage \in outages
    /\ extracted = [i \in 1..nItems |-> "none"]
    /\ launched = {}
    /\ clsFail = {}
    /\ embFail = {}
    /\ explFail = {}
    /\ reqProfile = DefaultProfile
    /\ results = [i \in 1..nItems |-> << >>]
    /\ nDone = 0
    /\ ranked = << >>
    /\ response = << >>
    /\ caller \in callers
    /\ summary = << >>
    /\ ackedBefore = Len(log)

\* extractor_agent.run returns (or fails and is replaced by its fallback);
\* scorer_agent.run starts: it reads the profile and creates one
\* process_item task per item
ExtractorReturns ==
    /\ stage = "Extract"
    /\ \E ok \in Outcomes("extractor") :
         /\ ~PipelineExhausted(ok, nItems)
         /\ extracted' = ExtractorOutput(ok, nItems)
    /\ stage' = NextStage(stage)
    /\ reqProfile' = ProfileOrDefault(get_user_profile(caller))
    /\ launched' = GatherTasks(nItems)
    /\ UNCHANGED << nItems, outage, clsFail, embFail, explFail, results,
                    nDone, ranked, response, caller, summary, ackedBefore >>

\* no item survives: the request ends with the pipeline error
PipelineFails ==
    /\ stage = "Extract"
    /\ \E ok \in Outcomes("extractor") : PipelineExhausted(ok, nItems)
    /\ stage' = "Failed"
    /\ UNCHANGED << nItems, outage, extracted, launched, clsFail, embFail,
                    explFail, reqProfile, results, nDone, ranked, response,
                    caller, summary, ackedBefore >>

\* process_item(i): the inner gather of get_embedding and classify_topics
\* completes, the item is scored and the task returns
ProcessItemDone(i) ==
    /\ stage = "Score"
    /\ i \in launched \ Completed
    /\ \E clsOk \in Outcomes("classify"), embOk \in Outcomes("embed") :
         /\ results' = [results EXCEPT ![GatherSlot(i, nDone)] =
                           << ScoredItem(i, clsOk, embOk, reqProfile) >>]
         /\ clsFail' = IF clsOk THEN clsFail ELSE clsFail \cup {i}
         /\ embFail' = IF embOk THEN embFail ELSE embFail \cup {i}
         /\ cache' = CacheAfterItem(i, embOk)
    /\ nDone' = nDone + 1
    /\ UNCHANGED << stage, nItems, outage, extracted, launched, explFail,
                    reqProfile, ranked, response, caller, summary,
                    ackedBefore >>

\* the outer gather returns once every task has: the list is ranked and
\* explainer_agent.run is awaited
ScorerReturns ==
    /\ stage = "Score"
    /\ nDone = nItems
    /\ ranked' = RankItems([sl \in 1..nItems |-> results[sl][1]])
    /\ stage' = NextStage(stage)
    /\ UNCHANGED << nItems, outage, extracted, launched, clsFail, embFail,
                    explFail, reqProfile, results, nDone, response, caller,
                    summary, ackedBefore >>

\* explainer_agent.run returns; the response is assembled
ExplainerReturns ==
    /\ stage = "Explain"
    /\ \E failing \in SUBSET Items :
         /\ failing # {} => FALSE \in Outcomes("explain")
         /\ explFail' = failing
         /\ response' = [k \in 1..Len(ranked) |->
                           [ranked[k] EXCEPT
                              !.why = ExplainWhy(ranked[k],
                                                 ranked[k].id \notin failing)]]
    /\ summary' = profile_summary(caller, reqProfile)
    /\ stage' = NextStage(stage)
    /\ UNCHANGED << nItems, outage, extracted, launched, clsFail, embFail,
                    reqProfile, results, nDone, ranked, caller, ackedBefore >>

\* POST /analyze_page arrives: the pipeline starts
RequestStart ==
    /\ stage = "Idle"
    /\ stage' = "Extract"
    /\ \E n \in 0..1 :
         /\ nItems' = n
         /\ extracted' = [i \in 1..n |-> "none"]
         /\ results' = [i \in 1..n |-> << >>]
    /\ ackedBefore' = Len(log)
    /\ UNCHANGED << outage, launched, clsFail, embFail, explFail, reqProfile,
                    nDone, ranked, response, caller, summary >>

PipelineNext ==
    \/ ExtractorReturns /\ UNCHANGED cache
    \/ PipelineFails /\ UNCHANGED cache
    \/ \E i \in Items : ProcessItemDone(i)
    \/ ScorerReturns /\ UNCHANGED cache
    \/ ExplainerReturns /\ UNCHANGED cache

---------------------------------------------------------------------------
(* The get_embedding calls of concurrent requests *)

CacheIdle ==
    /\ cache = EmptyDict
    /\ cacheUp = TRUE
    /\ now = 0
    /\ cpc = [t \in CacheTasks |-> "idle"]
    /\ carg = [t \in CacheTasks |-> [text |-> 1, item_id |-> 1]]
    /\ cout = [t \in CacheTasks |-> << >>]
    /\ lastPut = [tx \in 1..2 |-> << >>]

\* get_embedding(text, item_id) up to its first await: the cache is read;
\* on a hit the call returns the cached value
GetEmbeddingLookup(t) ==
    /\ cpc[t] = "idle"
    /\ \E tx \in 1..2, id \in 1..2 :
         LET cached == redis_get(cache, EmbeddingKey(tx, id), now)
             hit == cached # << >>
         IN  /\ carg' = [carg EXCEPT ![t] = [text |-> tx, item_id |-> id]]
             /\ cout' = [cout EXCEPT ![t] =
                    << [ text |-> tx, item_id |-> id, hit |-> hit, at |-> now,
                         emb |-> IF hit THEN json_loads(cached[1])
                                 ELSE embed_content(tx),
                         prior |-> lastPut[tx] ] >>]
             /\ cpc' = [cpc EXCEPT ![t] = IF hit THEN "idle" ELSE "missed"]
    /\ UNCHANGED << cache, cacheUp, now, lastPut >>

\* get_embedding after a miss: the embedding is generated and cached
GetEmbeddingStore(t) ==
    /\ cpc[t] = "missed"
    /\ LET emb == embed_content(carg[t].text)
       IN  /\ cache' = redis_setex(cache, EmbeddingKey(carg[t].text, carg[t].item_id),
                                   CACHE_TTL, json_dumps(emb), now)
           /\ lastPut' = [lastPut EXCEPT ![carg[t].text] =
                             << [emb |-> emb, at |-> now] >>]
    /\ cpc' = [cpc EXCEPT ![t] = "idle"]
    /\ UNCHANGED << cacheUp, now, carg, cout >>

\* half a TTL passes
Tick ==
    /\ now < MaxTicks * (CACHE_TTL \div 2)
    /\ now' = now + CACHE_TTL \div 2
    /\ UNCHANGED << cache, cacheUp, cpc, carg, cout, lastPut >>

CacheNext ==
    \/ \E t \in CacheTasks : GetEmbeddingLookup(t)
    \/ \E t \in CacheTasks : GetEmbeddingStore(t)
    \/ Tick

---------------------------------------------------------------------------
(* The scoring harness: score one fingerprint against one profile *)

AffinitySamples == { -100000, -30, 30, 100000 }

FingerprintSamples ==
    { Fingerprint(1, text, domain, topics, emb, prom) :
        text \in { ItemText(1), ItemText(2) },
        domain \in { "github.com", "" },
        topics \in { {"AI"}, {"crypto"}, {"AI", "crypto"}, FallbackTopics },
        emb \in { << 100, 0 >>, ZeroVec },
        prom \in { 0, 10 } }

TopicAffinitySamples ==
    { EmptyDict } \cup { [k \in {"AI"} |-> a] : a \in AffinitySamples }
    \cup { [k \in {"AI", "crypto"} |-> IF k = "AI" THEN 30 ELSE a] :
             a \in {-100000, 100000} }

DomainAffinitySamples ==
    { EmptyDict } \cup { [d \in {"github.com"} |-> a] : a \in {-100000, 50, 100000} }

\* voice onboarding that dislikes crypto, then ten clicks on a crypto item
DislikedThenClicked ==
    Repeat(<< UpdateResult(<< >>, Onboarding(VoiceDislikeCrypto)) >>,
           Event("click", 2), 10)[1]

ProfileSamples ==
    { DislikedThenClicked } \cup
    { [ DefaultProfile EXCEPT !.topic_affinity = ta, !.domain_affinity = da,
                              !.user_text_vector = tv, !.voice_preferences = vp,
                              !.voice_onboarding_complete = (vp # << >>) ] :
        ta \in TopicAffinitySamples, da \in DomainAffinitySamples,
        tv \in { ZeroVec, << 15, 0 >> },
        vp \in { << >>, VoiceDislikeCrypto, VoiceLikeAi, VoiceBoth } }

ScoreIdle ==
    /\ sFp = Fingerprint(1, ItemText(1), ItemDomain(1), ItemTopics(1),
                         ItemEmbedding(1), ItemProminence(1))
    /\ sProf = DefaultProfile
    /\ sOut = << >>

ScoreInit ==
    /\ sFp \in FingerprintSamples
    /\ sProf \in ProfileSamples
    /\ sOut = << >>

ScoreItem ==
    /\ sOut = << >>
    /\ sOut' = << [ base  |-> calculate_score(sFp, sProf),
                    final |-> calculate_score_with_voice_prefs(sFp, sProf) ] >>
    /\ UNCHANGED << sFp, sProf >>

---------------------------------------------------------------------------
(* The content script (extension/src/content/index.ts)                     *)
(*                                                                         *)
(* The page is a list of candidate elements in document order.  An element *)
(* is "absent" (not in the document), "hidden" (matched by the selectors   *)
(* but skipped by extractPageItems: too small, too far down, too little or *)
(* repeated text) or "visible".                                            *)

NumElems == 7
MaxBatches == 3
TOP_N == 5
ITEM_LIMIT == 50

Elems == 1..NumElems
NoId == -1
NoElement == 0

Element(status) ==
    [ status |-> status, dataId |-> NoId, hl |-> FALSE, badge |-> FALSE ]

InDocument(dom) == { e \in Elems : dom[e].status # "absent" }

\* the index forEach passes for e: its position in querySelectorAll's NodeList
NodeIndex(dom, e) == Cardinality({ d \in InDocument(dom) : d < e })

Extractable(dom, e) == dom[e].status = "visible"

InOrder(S) ==
    [ i \in 1..Cardinality(S) |->
        CHOOSE e \in S : Cardinality({ d \in S : d < e }) = i - 1 ]

\* extractPageItems: the elements it marks with data-interestlens-id
MarkElements(dom) ==
    [ e \in Elems |->
        IF Extractable(dom, e)
        THEN [ dom[e] EXCEPT !.dataId = NodeIndex(dom, e) ]
        ELSE dom[e] ]

\* extractPageItems: the items it returns; el is the element the item was
\* read from (the PageItem itself carries only the id)
extractPageItems(dom) ==
    LET found == InOrder({ e \in Elems : Extractable(dom, e) })
        items == [ i \in 1..Len(found) |->
                     [ id |-> NodeIndex(dom, found[i]), el |-> found[i] ] ]
    IN  SubSeq(items, 1, Min(Len(items), ITEM_LIMIT))

\* document.querySelector('[data-interestlens-id="item_<id>"]')
querySelector(dom, id) ==
    LET hits == { e \in InDocument(dom) : dom[e].dataId = id }
    IN  IF hits = {} THEN NoElement
        ELSE CHOOSE e \in hits : \A d \in hits : e <= d

\* extractAndAnalyze, lines 81-86: currentItems.set(item.id, element)
StoreElements(current, dom, items) ==
    [ id \in DOMAIN current |->
        IF /\ \E i \in 1..Len(items) : items[i].id = id
           /\ querySelector(dom, id) # NoElement
        THEN querySelector(dom, id)
        ELSE current[id] ]

TopItems(scored) == SubSeq(scored, 1, Min(Len(scored), TOP_N))

\* renderHighlights
renderHighlights(dom, current, scored) ==
    LET top     == TopItems(scored)
        targets == { current[top[i].id] : i \in 1..Len(top) } \ { NoElement }
    IN  [ e \in Elems |->
            IF e \in targets
            THEN [ dom[e] EXCEPT !.hl = TRUE, !.badge = TRUE ]
            ELSE IF e \in InDocument(dom)
                 THEN [ dom[e] EXCEPT !.hl = FALSE, !.badge = FALSE ]
                 ELSE dom[e] ]

Reverse(s) == [ i \in 1..Len(s) |-> s[Len(s) + 1 - i] ]

\* the orders in which the backend may rank the items of a request
ScoredOrders(items) == { items, Reverse(items) }

\* extractAndAnalyze, lines 61-64: the guard a call has to pass
AnalysisGuardAlways(analyzing) == TRUE

AnalysisGuard(analyzing) == ~analyzing

\* extractAndAnalyze: isAnalyzing once a run that passed the guard has ended
\* in the given way ("no_items", "rendered", "failed", "exception")
AfterRunNoFinally(ending) == ending = "no_items"

AfterRun(ending) == FALSE

Pages ==
    { [ e \in Elems |-> Element("absent") ],
      [ e \in Elems |-> Element("visible") ] }

ExtensionContentIdle ==
    /\ csDom = [ e \in Elems |-> Element("absent") ]
    /\ csCurrentItems = [ id \in 0..(NumElems - 1) |-> NoElement ]
    /\ csIsAnalyzing = FALSE
    /\ csRuns = << >>
    /\ csTimers = 0
    /\ csRendered = << >>
    /\ csLoaded = FALSE
    /\ csLastEnd = "none"
    /\ csOwed = FALSE
    /\ csBatches = 0
    /\ csBurstRuns = 0

ContentInit ==
    /\ csDom \in Pages
    /\ csCurrentItems = [ id \in 0..(NumElems - 1) |-> NoElement ]
    /\ csIsAnalyzing = FALSE
    /\ csRuns = << >>
    /\ csTimers = 0
    /\ csRendered = << >>
    /\ csLoaded = FALSE
    /\ csLastEnd = "none"
    /\ csOwed = FALSE
    /\ csBatches = 0
    /\ csBurstRuns = 0

\* extractAndAnalyze up to its await: the call returns at once while another
\* run is in progress, ends at once on a page without items, and otherwise
\* sends ANALYZE_PAGE
extractAndAnalyze ==
    IF ~AnalysisGuard(csIsAnalyzing)
    THEN UNCHANGED << csDom, csCurrentItems, csIsAnalyzing, csRuns, csLastEnd >>
    ELSE LET items  == extractPageItems(csDom)
             marked == MarkElements(csDom)
         IN  /\ csDom' = marked
             /\ IF Len(items) = 0
                THEN /\ csIsAnalyzing' = AfterRun("no_items")
                     /\ csLastEnd' = "no_items"
                     /\ UNCHANGED << csCurrentItems, csRuns >>
                ELSE /\ csIsAnalyzing' = TRUE
                     /\ csCurrentItems' = StoreElements(csCurrentItems, marked, items)
                     /\ csRuns' = Append(csRuns, items)
                     /\ UNCHANGED csLastEnd

\* initialize(): the first analysis, at once or on the load event
Initialize ==
    /\ ~csLoaded
    /\ csLoaded' = TRUE
    /\ extractAndAnalyze
    /\ csOwed' = (csOwed /\ ~AnalysisGuard(csIsAnalyzing))
    /\ UNCHANGED << csTimers, csRendered, csBatches, csBurstRuns >>

\* the three listeners of lines 16-45: REFRESH_ANALYSIS, the BroadcastChannel
\* PREFERENCES_UPDATED message and the localStorage key
PreferencesNotification(channel) ==
    /\ channel \in { "REFRESH_ANALYSIS", "PREFERENCES_UPDATED", "storage" }
    /\ extractAndAnalyze
    /\ csOwed' = ~AnalysisGuard(csIsAnalyzing)
    /\ UNCHANGED << csTimers, csRendered, csLoaded, csBatches, csBurstRuns >>

\* the MutationObserver callback runs: a batch in which some record adds or
\* removes more than five nodes arms one more timer
MutationBatch(significant) ==
    /\ csBatches < MaxBatches
    /\ csBatches' = csBatches + 1
    /\ csTimers' = IF significant THEN csTimers + 1 ELSE csTimers
    /\ csBurstRuns' = IF significant /\ csTimers = 0 THEN 0 ELSE csBurstRuns
    /\ UNCHANGED << csDom, csCurrentItems, csIsAnalyzing, csRuns, csRendered,
                    csLoaded, csLastEnd, csOwed >>

\* the page removes its first element or hides its second (a style change);
\* the observer sees no added node
PageChanges(change) ==
    /\ \/ /\ change = "remove"
          /\ csDom[1].status # "absent"
          /\ csDom' = [ csDom EXCEPT ![1].status = "absent" ]
       \/ /\ change = "hide"
          /\ csDom[2].status = "visible"
          /\ csDom' = [ csDom EXCEPT ![2].status = "hidden" ]
    /\ UNCHANGED << csCurrentItems, csIsAnalyzing, csRuns, csTimers, csRendered,
                    csLoaded, csLastEnd, csOwed, csBatches, csBurstRuns >>

\* setTimeout(extractAndAnalyze, 1000) fires
AnalysisTimerFires ==
    /\ csTimers > 0
    /\ csTimers' = csTimers - 1
    /\ extractAndAnalyze
    /\ csBurstRuns' = IF AnalysisGuard(csIsAnalyzing)
                      THEN csBurstRuns + 1 ELSE csBurstRuns
    /\ csOwed' = (csOwed /\ ~AnalysisGuard(csIsAnalyzing))
    /\ UNCHANGED << csRendered, csLoaded, csBatches >>

\* the sendMessage promise of run r settles: lines 99-111
AnalyzeResponse(r, ending) ==
    /\ r \in 1..Len(csRuns)
    /\ ending \in { "rendered", "failed", "exception" }
    /\ csRuns' = [ i \in 1..(Len(csRuns) - 1) |->
                     IF i < r THEN csRuns[i] ELSE csRuns[i + 1] ]
    /\ csIsAnalyzing' = AfterRun(ending)
    /\ csLastEnd' = ending
    /\ IF ending = "rendered"
       THEN \E scored \in ScoredOrders(csRuns[r]) :
                /\ csRendered' = scored
                /\ csDom' = renderHighlights(csDom, csCurrentItems, scored)
       ELSE UNCHANGED << csDom, csRendered >>
    /\ UNCHANGED << csCurrentItems, csTimers, csLoaded, csOwed, csBatches,
                    csBurstRuns >>

ContentNext ==
    \/ Initialize
    \/ \E channel \in { "REFRESH_ANALYSIS", "PREFERENCES_UPDATED", "storage" } :
          PreferencesNotification(channel)
    \/ \E significant \in BOOLEAN : MutationBatch(significant)
    \/ \E change \in { "remove", "hide" } : PageChanges(change)
    \/ AnalysisTimerFires
    \/ \E r \in 1..Len(csRuns), ending \in { "rendered", "failed", "exception" } :
          AnalyzeResponse(r, ending)

---------------------------------------------------------------------------
(* The service worker (extension/src/background/service-worker.ts)         *)
(*                                                                         *)
(* authState and chrome.storage.local hold << >> (no token) or << token >>.*)
(* Storage calls are served in the order they are issued, so a write takes *)
(* effect for every later read when the handler issues it, and the startup *)
(* read returns what was stored when the worker started; its callback runs *)
(* later.                                                                  *)

Tokens == { "t1", "t2" }
Tabs == { "tab1", "tab2" }
NoToken == << >>

MessageTypes ==
    { "ANALYZE_PAGE", "LOG_EVENT", "GET_AUTH_STATE", "LOGIN", "LOGOUT",
      "VOICE_SESSION_COMPLETE" }

NoMessage ==
    [ type |-> "none", token |-> NoToken, success |-> FALSE,
      error |-> "", refreshed |-> {}, persisted |-> NoToken ]

\* handleMessage, lines 46-97: the token the handler passes to the API, what
\* it answers, and the tabs it sends REFRESH_ANALYSIS to; apiOk is whether
\* the backend call succeeded
handleMessage(type, auth, apiOk) ==
    CASE type = "ANALYZE_PAGE" ->
           [ token |-> auth, success |-> apiOk,
             error |-> IF apiOk THEN "" ELSE "api", refreshed |-> {} ]
      [] type = "LOG_EVENT" ->
           IF auth # NoToken
           THEN [ token |-> auth, success |-> apiOk,
                  error |-> IF apiOk THEN "" ELSE "api", refreshed |-> {} ]
           ELSE [ token |-> NoToken, success |-> FALSE,
                  error |-> "Not authenticated", refreshed |-> {} ]
      [] type \in { "GET_AUTH_STATE", "LOGIN", "LOGOUT" } ->
           [ token |-> NoToken, success |-> TRUE, error |-> "",
             refreshed |-> {} ]
      [] OTHER ->
           [ token |-> NoToken, success |-> FALSE,
             error |-> "Unknown message type", refreshed |-> {} ]

\* lines 17-25: what the startup read's callback makes of authState
StartupRead(result, auth) == IF result # NoToken THEN result ELSE auth

ExtensionWorkerIdle ==
    /\ swAuthState = NoToken
    /\ swStorage = NoToken
    /\ swStartup = "done"
    /\ swStartupResult = NoToken
    /\ swLoggedOut = FALSE
    /\ swLast = NoMessage

\* the worker has just started: the persisted token (if any) is being read
WorkerInit ==
    /\ swAuthState = NoToken
    /\ swStorage \in { NoToken } \cup { << t >> : t \in Tokens }
    /\ swStartup = "pending"
    /\ swStartupResult = swStorage
    /\ swLoggedOut = FALSE
    /\ swLast = NoMessage

\* the idle worker is stopped and started again by the next event
WorkerRestarts ==
    /\ swAuthState' = NoToken
    /\ swStartup' = "pending"
    /\ swStartupResult' = swStorage
    /\ UNCHANGED << swStorage, swLoggedOut, swLast >>

\* the callback of chrome.storage.local.get(['authToken', 'user'], ...)
StartupReadCallback ==
    /\ swStartup = "pending"
    /\ swStartup' = "done"
    /\ swAuthState' = StartupRead(swStartupResult, swAuthState)
    /\ UNCHANGED << swStorage, swStartupResult, swLoggedOut, swLast >>

\* chrome.runtime.onMessage: handleMessage, with handleLogout for LOGOUT
HandleMessage(type, apiOk) ==
    /\ type \in MessageTypes
    /\ LET r == handleMessage(type, swAuthState, apiOk)
       IN  swLast' = [ type |-> type, token |-> r.token, success |-> r.success,
                       error |-> r.error, refreshed |-> r.refreshed,
                       persisted |-> swStorage ]
    /\ IF type = "LOGOUT"
       THEN /\ swAuthState' = NoToken
            /\ swStorage' = NoToken
            /\ swLoggedOut' = TRUE
       ELSE UNCHANGED << swAuthState, swStorage, swLoggedOut >>
    /\ UNCHANGED << swStartup, swStartupResult >>

\* chrome.runtime.onMessageExternal AUTH_SUCCESS: handleAuthSuccess
HandleAuthSuccess(token) ==
    /\ token \in Tokens
    /\ swAuthState' = << token >>
    /\ swStorage' = << token >>
    /\ swLoggedOut' = FALSE
    /\ swLast' = [ NoMessage EXCEPT !.type = "AUTH_SUCCESS", !.success = TRUE,
                                    !.persisted = swStorage ]
    /\ UNCHANGED << swStartup, swStartupResult >>

WorkerNext ==
    \/ WorkerRestarts
    \/ StartupReadCallback
    \/ \E type \in MessageTypes, apiOk \in BOOLEAN : HandleMessage(type, apiOk)
    \/ \E token \in Tokens : HandleAuthSuccess(token)

---------------------------------------------------------------------------
(* ReconnectingWebSocket (extension/voice-session-manager.js)              *)

maxRetries == 5
MaxAttempts == 7
MaxOrphans == 1

Live == { "connecting", "open", "closing" }

exhaustVars == << rwsSessionCleared, rwsExpiredCalled, rwsFailedAtMax,
                 rwsScheduledAfter >>

NothingExpired ==
    /\ rwsSessionCleared = FALSE
    /\ rwsExpiredCalled = FALSE
    /\ rwsFailedAtMax = FALSE
    /\ rwsScheduledAfter = FALSE

\* createWebSocketConnection, lines 302-313: whether the onError the socket
\* was built with clears the session and calls options.onSessionExpired
OnErrorExpires(custom, retryCount) == ~custom /\ retryCount >= maxRetries

ExtensionSocketIdle ==
    /\ rwsUrlOk = TRUE
    /\ rwsWs = "none"
    /\ rwsOld = << >>
    /\ rwsRetryCount = 0
    /\ rwsIsConnecting = FALSE
    /\ rwsShouldReconnect = TRUE
    /\ rwsTimers = 0
    /\ rwsClosed = FALSE
    /\ rwsOpenedAfterClose = FALSE
    /\ rwsCustomOnError = FALSE
    /\ NothingExpired

\* createWebSocketConnection: the constructor, with the caller's options
\* spread over the default onError; new WebSocket(url) throws for a url it rejects
SocketInit ==
    /\ rwsUrlOk \in BOOLEAN
    /\ rwsWs = "none"
    /\ rwsOld = << >>
    /\ rwsRetryCount = 0
    /\ rwsIsConnecting = FALSE
    /\ rwsShouldReconnect = TRUE
    /\ rwsTimers = 0
    /\ rwsClosed = FALSE
    /\ rwsOpenedAfterClose = FALSE
    /\ rwsCustomOnError \in BOOLEAN
    /\ NothingExpired

\* socket 0 is this.ws; sockets 1.. are the ones this.ws pointed to before
\* and that are still live, with their handlers attached
Sockets == { k \in 0..Len(rwsOld) : k > 0 \/ rwsWs \in Live }

SocketState(k) == IF k = 0 THEN rwsWs ELSE rwsOld[k]

Without(s, k) ==
    [ i \in 1..(Len(s) - 1) |-> IF i < k THEN s[i] ELSE s[i + 1] ]

\* socket k moves to state st; a closed socket fires no further event
SetSocketState(k, st) ==
    IF k = 0
    THEN rwsWs' = st /\ UNCHANGED rwsOld
    ELSE /\ rwsOld' = IF st = "closed" THEN Without(rwsOld, k)
                      ELSE [ rwsOld EXCEPT ![k] = st ]
         /\ UNCHANGED rwsWs

\* scheduleReconnect, with pending the timers armed before the call
scheduleReconnect(pending) ==
    /\ rwsRetryCount' = rwsRetryCount + 1
    /\ rwsTimers' = pending + 1
    /\ rwsScheduledAfter' = (rwsScheduledAfter \/ rwsFailedAtMax')

\* onclose, line 381: whether the closed socket is replaced
ReconnectAllowed(shouldReconnect, retryCount) ==
    shouldReconnect /\ retryCount < maxRetries

\* connect(), with pending the timers armed when it is called
connect(pending) ==
    IF rwsIsConnecting
    THEN /\ rwsTimers' = pending
         /\ UNCHANGED << rwsWs, rwsOld, rwsRetryCount, rwsIsConnecting,
                         rwsOpenedAfterClose, rwsFailedAtMax, rwsScheduledAfter >>
    ELSE IF rwsUrlOk
         THEN /\ rwsWs' = "connecting"
              /\ rwsOld' = IF rwsWs \in Live THEN Append(rwsOld, rwsWs)
                           ELSE rwsOld
              /\ rwsIsConnecting' = TRUE
              /\ rwsOpenedAfterClose' = (rwsOpenedAfterClose \/ rwsClosed)
              /\ rwsTimers' = pending
              /\ UNCHANGED << rwsRetryCount, rwsFailedAtMax, rwsScheduledAfter >>
         ELSE /\ rwsIsConnecting' = FALSE
              /\ rwsFailedAtMax' = (rwsFailedAtMax \/ rwsRetryCount >= maxRetries)
              /\ scheduleReconnect(pending)
              /\ UNCHANGED << rwsWs, rwsOld, rwsOpenedAfterClose >>

\* connect() would leave more live sockets behind than the model follows
TooManySockets == rwsWs \in Live /\ Len(rwsOld) >= MaxOrphans

\* the owner calls connect() while no reconnect is pending
Connect ==
    /\ ~rwsClosed
    /\ rwsTimers = 0
    /\ ~TooManySockets
    /\ connect(rwsTimers)
    /\ UNCHANGED << rwsUrlOk, rwsShouldReconnect, rwsClosed, rwsCustomOnError,
                    rwsSessionCleared, rwsExpiredCalled >>

\* the timer armed by scheduleReconnect fires: () => this.connect()
ReconnectTimerFires ==
    /\ rwsTimers > 0
    /\ ~TooManySockets
    /\ rwsRetryCount < MaxAttempts
    /\ connect(rwsTimers - 1)
    /\ UNCHANGED << rwsUrlOk, rwsShouldReconnect, rwsClosed, rwsCustomOnError,
                    rwsSessionCleared, rwsExpiredCalled >>

\* ws.onopen of socket k
SocketOpens(k) ==
    /\ k \in Sockets
    /\ SocketState(k) = "connecting"
    /\ SetSocketState(k, "open")
    /\ rwsRetryCount' = 0
    /\ rwsIsConnecting' = FALSE
    /\ rwsFailedAtMax' = FALSE
    /\ rwsScheduledAfter' = FALSE
    /\ UNCHANGED << rwsUrlOk, rwsShouldReconnect, rwsTimers, rwsClosed,
                    rwsOpenedAfterClose, rwsCustomOnError, rwsSessionCleared,
                    rwsExpiredCalled >>

\* ws.onerror of socket k, which calls this.onError(error, this.retryCount);
\* its close event follows
SocketErrors(k) ==
    /\ k \in Sockets
    /\ SocketState(k) \in { "connecting", "open" }
    /\ SetSocketState(k, "closing")
    /\ rwsIsConnecting' = FALSE
    /\ rwsFailedAtMax' = (rwsFailedAtMax \/ rwsRetryCount >= maxRetries)
    /\ IF OnErrorExpires(rwsCustomOnError, rwsRetryCount)
       THEN rwsSessionCleared' = TRUE /\ rwsExpiredCalled' = TRUE
       ELSE UNCHANGED << rwsSessionCleared, rwsExpiredCalled >>
    /\ UNCHANGED << rwsUrlOk, rwsRetryCount, rwsShouldReconnect, rwsTimers,
                    rwsClosed, rwsOpenedAfterClose, rwsCustomOnError,
                    rwsScheduledAfter >>

\* ws.onmessage of socket k with a SESSION_NOT_FOUND, SESSION_EXPIRED or
\* SESSION_ENDED error
SessionErrorMessage(k) ==
    /\ k \in Sockets
    /\ SocketState(k) = "open"
    /\ rwsShouldReconnect' = FALSE
    /\ rwsExpiredCalled' = TRUE
    /\ UNCHANGED << rwsUrlOk, rwsWs, rwsOld, rwsRetryCount, rwsIsConnecting,
                    rwsTimers, rwsClosed, rwsOpenedAfterClose, rwsCustomOnError,
                    rwsSessionCleared, rwsFailedAtMax, rwsScheduledAfter >>

\* ws.onclose of socket k; a connection that fails before it is open fires
\* its error event first
SocketCloses(k) ==
    /\ k \in Sockets
    /\ SocketState(k) \in { "open", "closing" }
    /\ SetSocketState(k, "closed")
    /\ rwsIsConnecting' = FALSE
    /\ UNCHANGED rwsFailedAtMax
    /\ IF ReconnectAllowed(rwsShouldReconnect, rwsRetryCount)
       THEN scheduleReconnect(rwsTimers)
       ELSE UNCHANGED << rwsRetryCount, rwsTimers, rwsScheduledAfter >>
    /\ UNCHANGED << rwsUrlOk, rwsShouldReconnect, rwsClosed, rwsOpenedAfterClose,
                    rwsCustomOnError, rwsSessionCleared, rwsExpiredCalled >>

\* close()
Close ==
    /\ ~rwsClosed
    /\ rwsClosed' = TRUE
    /\ rwsShouldReconnect' = FALSE
    /\ rwsWs' = IF rwsWs \in { "connecting", "open" } THEN "closing" ELSE rwsWs
    /\ UNCHANGED << rwsUrlOk, rwsOld, rwsRetryCount, rwsIsConnecting, rwsTimers,
                    rwsOpenedAfterClose, rwsCustomOnError, exhaustVars >>

SocketNext ==
    \/ Connect
    \/ ReconnectTimerFires
    \/ \E k \in Sockets : SocketOpens(k)
    \/ \E k \in Sockets : SocketErrors(k)
    \/ \E k \in Sockets : SessionErrorMessage(k)
    \/ \E k \in Sockets : SocketCloses(k)
    \/ Close

---------------------------------------------------------------------------
(* VoiceSessionManager.getValidSession (extension/voice-session-manager.js)*)
(*                                                                         *)
(* Times are in milliseconds.  A localStorage entry is << >> (no entry) or *)
(* << string >>; a string that parseInt can read is [kind |-> "digits"]    *)
(* with its value, any other string is [kind |-> "text"].                  *)

sessionTimeoutMs == 1800000
tokenExpiryBufferMs == 300000
ClockStart == 2000000
MaxSessionTicks == 2

Digits(n) == [ kind |-> "digits", n |-> n ]
Text == [ kind |-> "text", n |-> 0 ]
NoNumber == << >>

\* parseInt: NaN for a string without leading digits
parseInt(string) == IF string.kind = "digits" THEN << string.n >> ELSE NoNumber

\* x ? parseInt(x) : null
ParsedEntry(entry) == IF entry = << >> THEN NoNumber ELSE parseInt(entry[1])

\* JavaScript truthiness of a number, null or NaN
Truthy(number) == number # NoNumber /\ number[1] # 0

NoSession == << >>

\* getCachedSession
getCachedSession(storage) ==
    IF storage.room_name \in { << >>, << "" >> } \/ storage.token \in { << >>, << "" >> }
    THEN NoSession
    ELSE << [ room_name     |-> storage.room_name[1],
              token         |-> storage.token[1],
              token_expiry  |-> ParsedEntry(storage.token_expiry),
              session_start |-> ParsedEntry(storage.session_start) ] >>

\* isTokenExpired
isTokenExpiredNoBuffer(session, clock) ==
    IF session = NoSession \/ ~Truthy(session[1].token_expiry)
    THEN TRUE
    ELSE clock >= session[1].token_expiry[1]

isTokenExpired(session, clock) ==
    IF session = NoSession \/ ~Truthy(session[1].token_expiry)
    THEN TRUE
    ELSE clock >= session[1].token_expiry[1] - tokenExpiryBufferMs

\* isSessionStale
isSessionStale(session, clock) ==
    IF session = NoSession \/ ~Truthy(session[1].session_start)
    THEN TRUE
    ELSE clock - session[1].session_start[1] >= sessionTimeoutMs

\* clearSession
EmptyStorage ==
    [ room_name |-> << >>, token |-> << >>, token_expiry |-> << >>,
      room_url |-> << >>, session_start |-> << >>, websocket_url |-> << >>,
      user_id |-> << >> ]

\* clearSession: removeItem for each of the KEYS
clearSession(storage) ==
    [ storage EXCEPT !.room_name = << >>, !.token = << >>,
                     !.token_expiry = << >>, !.room_url = << >>,
                     !.session_start = << >>, !.websocket_url = << >>,
                     !.user_id = << >> ]

\* validateWithBackend: the validation object it resolves to
Validations ==
    { [ valid |-> TRUE,  should_clear_cache |-> FALSE, error |-> "none" ],
      [ valid |-> FALSE, should_clear_cache |-> TRUE,  error |-> "SESSION_EXPIRED" ],
      [ valid |-> FALSE, should_clear_cache |-> FALSE, error |-> "SESSION_ENDED" ],
      [ valid |-> FALSE, should_clear_cache |-> FALSE, error |-> "VALIDATION_FAILED" ],
      [ valid |-> FALSE, should_clear_cache |-> FALSE, error |-> "NETWORK_ERROR" ] }

\* what saveSession leaves under room_url, websocket_url and user_id
OtherKeySamples ==
    { [ room_url |-> << >>, websocket_url |-> << >>, user_id |-> << >> ],
      [ room_url |-> << "url" >>, websocket_url |-> << "ws" >>, user_id |-> << >> ],
      [ room_url |-> << "url" >>, websocket_url |-> << "ws" >>,
        user_id |-> << "user" >> ] }

ExpirySamples ==
    { << >>, << Text >>, << Digits(0) >>,
      << Digits(ClockStart + tokenExpiryBufferMs) >>,
      << Digits(ClockStart + tokenExpiryBufferMs + 1) >>,
      << Digits(ClockStart + tokenExpiryBufferMs + 2) >>,
      << Digits(ClockStart + 2 * tokenExpiryBufferMs) >> }

StartSamples ==
    { << >>, << Text >>,
      << Digits(ClockStart - sessionTimeoutMs) >>,
      << Digits(ClockStart - sessionTimeoutMs + 1) >>,
      << Digits(ClockStart) >> }

StorageSamples ==
    { [ room_name |-> r, token |-> t, token_expiry |-> e,
        room_url |-> o.room_url, session_start |-> s,
        websocket_url |-> o.websocket_url, user_id |-> o.user_id ] :
          r \in { << >>, << "" >>, << "room" >> }, t \in { << >>, << "tok" >> },
          e \in ExpirySamples, s \in StartSamples, o \in OtherKeySamples }

NoCall ==
    [ pc |-> "idle", stored |-> EmptyStorage, cached |-> NoSession, checkedAt |-> 0,
      validation |-> [ valid |-> FALSE, should_clear_cache |-> FALSE,
                       error |-> "none" ],
      validated |-> FALSE, result |-> "none" ]

ExtensionSessionIdle ==
    /\ vsStorage = EmptyStorage
    /\ vsNow = ClockStart
    /\ vsCall = NoCall

SessionInit ==
    /\ vsStorage \in StorageSamples
    /\ vsNow = ClockStart
    /\ vsCall = NoCall

\* getValidSession up to its await: the cache read and the local checks
GetValidSession ==
    /\ vsCall.pc = "idle"
    /\ LET cached == getCachedSession(vsStorage)
       IN  IF cached = NoSession
           THEN /\ vsCall' = [ NoCall EXCEPT !.pc = "returned",
                                             !.stored = vsStorage,
                                             !.checkedAt = vsNow,
                                             !.result = "null" ]
                /\ UNCHANGED vsStorage
           ELSE IF isTokenExpired(cached, vsNow) \/ isSessionStale(cached, vsNow)
                THEN /\ vsCall' = [ NoCall EXCEPT !.pc = "returned",
                                                  !.stored = vsStorage,
                                                  !.cached = cached,
                                                  !.checkedAt = vsNow,
                                                  !.result = "null" ]
                     /\ vsStorage' = clearSession(vsStorage)
                ELSE /\ vsCall' = [ NoCall EXCEPT !.pc = "validating",
                                                  !.stored = vsStorage,
                                                  !.cached = cached,
                                                  !.checkedAt = vsNow ]
                     /\ UNCHANGED vsStorage
    /\ UNCHANGED vsNow

StorageAfterValidationAlwaysClears(storage, validation) ==
    IF ~validation.valid THEN clearSession(storage) ELSE storage

\* getValidSession after its await: the cache is cleared when the validation
\* is not valid and sets should_clear_cache
StorageAfterValidation(storage, validation) ==
    IF ~validation.valid /\ validation.should_clear_cache
    THEN clearSession(storage) ELSE storage

\* validateWithBackend resolves and getValidSession returns
ValidationReturns(validation) ==
    /\ vsCall.pc = "validating"
    /\ validation \in Validations
    /\ vsCall' = [ vsCall EXCEPT !.pc = "returned", !.validation = validation,
                                 !.validated = TRUE,
                                 !.result = IF validation.valid
                                            THEN "session" ELSE "null" ]
    /\ vsStorage' = StorageAfterValidation(vsStorage, validation)
    /\ UNCHANGED vsNow

\* the clock advances by a millisecond
SessionTick ==
    /\ vsNow < ClockStart + MaxSessionTicks
    /\ vsNow' = vsNow + 1
    /\ UNCHANGED << vsStorage, vsCall >>

SessionNext ==
    \/ GetValidSession
    \/ \E validation \in Validations : ValidationReturns(validation)
    \/ SessionTick

---------------------------------------------------------------------------
(* BrowserPlugin/tracker.js: the activity buffer and its sync                *)

MaxActivities == 5
MaxLoaded == 2
MaxInFlight == 2

\* the activities of a sequence
Activities(buffer) == { buffer[i] : i \in 1..Len(buffer) }

\* activities are numbered as addToBuffer stamps them, so a buffer is in
\* the order its activities were added when the numbers ascend
InOrderOfAddition(buffer) ==
    \A i, j \in 1..Len(buffer) : i < j => buffer[i] < buffer[j]

\* addToBuffer: push
addToBuffer(buffer, activity) == Append(buffer, activity)

\* syncToBackend's catch branch: [...bufferToSync, ...activityBuffer]
RestoreBuffer(bufferToSync, buffer) == bufferToSync \o buffer

ExtensionTrackerIdle ==
    /\ trBuffer = << >>
    /\ trInFlight = {}
    /\ trNextId = 1
    /\ trDelivered = {}
    /\ trOverlapped = FALSE

\* after init(): loadBufferedActivity has put what an earlier page left in
\* storage into the buffer, the listeners and the sync interval are set
TrackerInit ==
    /\ \E n \in 0..MaxLoaded :
           /\ trBuffer = [ i \in 1..n |-> i ]
           /\ trNextId = n + 1
    /\ trInFlight = {}
    /\ trDelivered = {}
    /\ trOverlapped = FALSE

\* trackClick on a link
TrackClick ==
    /\ trNextId <= MaxActivities
    /\ trBuffer' = addToBuffer(trBuffer, trNextId)
    /\ trNextId' = trNextId + 1
    /\ UNCHANGED << trInFlight, trDelivered, trOverlapped >>

\* syncToBackend up to its await, run by the interval, by init's timeout or
\* through window.__interestLensTracker.sync: the page visit is added, the
\* buffer is taken and emptied, and the fetch is sent
SyncToBackend ==
    /\ trNextId <= MaxActivities
    /\ Cardinality(trInFlight) < MaxInFlight
    /\ LET bufferToSync == addToBuffer(trBuffer, trNextId)
       IN  /\ trInFlight' = trInFlight \cup { bufferToSync }
           /\ trBuffer' = << >>
    /\ trNextId' = trNextId + 1
    /\ trOverlapped' = (trOverlapped \/ trInFlight # {})
    /\ UNCHANGED trDelivered

\* the fetch of one sync resolves with an OK response
SyncSucceeds(bufferToSync) ==
    /\ bufferToSync \in trInFlight
    /\ trInFlight' = trInFlight \ { bufferToSync }
    /\ trDelivered' = trDelivered \cup Activities(bufferToSync)
    /\ UNCHANGED << trBuffer, trNextId, trOverlapped >>

\* the fetch of one sync rejects or resolves with a non-OK response
SyncFails(bufferToSync) ==
    /\ bufferToSync \in trInFlight
    /\ trInFlight' = trInFlight \ { bufferToSync }
    /\ trBuffer' = RestoreBuffer(bufferToSync, trBuffer)
    /\ UNCHANGED << trNextId, trDelivered, trOverlapped >>

TrackerNext ==
    \/ TrackClick
    \/ SyncToBackend
    \/ \E b \in trInFlight : SyncSucceeds(b)
    \/ \E b \in trInFlight : SyncFails(b)

---------------------------------------------------------------------------
(* The extension at rest, for the specifications of the backend            *)

ExtensionIdle ==
    /\ ExtensionContentIdle
    /\ ExtensionWorkerIdle
    /\ ExtensionSocketIdle
    /\ ExtensionSessionIdle
    /\ ExtensionTrackerIdle

---------------------------------------------------------------------------
(* Specifications *)

\* the profile store under concurrent updates
Init == ProfileInit /\ PipelineIdle /\ ScoreIdle /\ CacheIdle /\ ExtensionIdle

Next ==
    \/ \E w \in Writers : SavePreferencesRead(w) /\ UNCHANGED << pipelineVars, scoreVars, cacheVars, extensionVars >>
    \/ \E w \in Writers : RecordEventRead(w) /\ UNCHANGED << pipelineVars, scoreVars, cacheVars, extensionVars >>
    \/ \E w \in Writers : StoreUserProfile(w) /\ UNCHANGED << pipelineVars, scoreVars, cacheVars, extensionVars >>

Spec == Init /\ [][Next]_vars

\* one analysis request against a stored profile
StoredProfiles ==
    { << >>,
      << UpdateResult(<< >>, Event("click", 2)) >>,
      << UpdateResult(<< >>, Onboarding(VoiceDislikeCrypto)) >>,
      << UpdateResult(<< UpdateResult(<< >>, Event("click", 1)) >>,
                      Onboarding(VoiceLikeAi)) >> }

QuietWriters ==
    /\ wpc = [w \in Writers |-> "idle"]
    /\ wupd = [w \in Writers |-> Event("click", 1)]
    /\ wsnap = [w \in Writers |-> << >>]
    /\ wout = [w \in Writers |-> << >>]
    /\ log = << >>
    /\ started = 0

InitPipeline ==
    /\ store \in StoredProfiles
    /\ QuietWriters
    /\ RequestInit(0..MaxItems, SUBSET Services, {"user", "anonymous"})
    /\ ScoreIdle
    /\ CacheIdle
    /\ ExtensionIdle

NextPipeline ==
    PipelineNext /\ UNCHANGED << profileVars, scoreVars, cacheUp, now, cpc, carg,
                                 cout, lastPut, extensionVars >>

SpecPipeline == InitPipeline /\ [][NextPipeline]_vars

\* a request larger than the concurrency ceiling (or empty), every service healthy
InitFanout ==
    /\ store = << >>
    /\ QuietWriters
    /\ RequestInit({0, MAX_CONCURRENT + 1}, {{}}, {"user"})
    /\ ScoreIdle
    /\ CacheIdle
    /\ ExtensionIdle

SpecFanout == InitFanout /\ [][NextPipeline]_vars

\* the scoring function on sampled inputs
InitScore == ProfileInit /\ PipelineIdle /\ ScoreInit /\ CacheIdle /\ ExtensionIdle

NextScore ==
    ScoreItem /\ UNCHANGED << profileVars, pipelineVars, cacheVars, extensionVars >>

SpecScore == InitScore /\ [][NextScore]_vars

\* profile updates and one analysis request of the same user, interleaved
NextFeedback ==
    \/ Next /\ UNCHANGED cacheVars
    \/ RequestStart /\ UNCHANGED << profileVars, scoreVars, cacheVars, extensionVars >>
    \/ NextPipeline

SpecFeedback == Init /\ [][NextFeedback]_vars

\* a request while the Redis store cannot be reached; the cache holds the
\* entry an earlier page left under item id 1
StaleCache ==
    redis_setex(EmptyDict, EmbeddingKey(2, 1), CACHE_TTL,
                json_dumps(embed_content(2)), 0)

InitCacheDown ==
    /\ store \in { << >>, << UpdateResult(<< >>, Event("click", 2)) >> }
    /\ QuietWriters
    /\ RequestInit(0..MaxItems, { {}, {"embed"}, Services }, {"user", "anonymous"})
    /\ ScoreIdle
    /\ cache = StaleCache
    /\ cacheUp = FALSE
    /\ now = 0
    /\ cpc = [t \in CacheTasks |-> "idle"]
    /\ carg = [t \in CacheTasks |-> [text |-> 1, item_id |-> 1]]
    /\ cout = [t \in CacheTasks |-> << >>]
    /\ lastPut = [tx \in 1..2 |-> << >>]
    /\ ExtensionIdle

SpecCacheDown == InitCacheDown /\ [][NextPipeline]_vars

\* get_embedding calls of several requests against the shared cache
InitCache == ProfileInit /\ PipelineIdle /\ ScoreIdle /\ CacheIdle /\ ExtensionIdle

NextCache ==
    CacheNext /\ UNCHANGED << profileVars, pipelineVars, scoreVars, extensionVars >>

SpecCache == InitCache /\ [][NextCache]_vars

---------------------------------------------------------------------------
(* Properties *)

NEUTRAL_SCORE == 50

IdleAfter(w, kind) ==
    /\ wpc[w] = "idle"
    /\ wout[w] # << >>
    /\ wupd[w].kind = kind

\* every order of applying, one after another, the updates log[i], i in S
RECURSIVE SerialOutcomes(_, _)
SerialOutcomes(S, stored) ==
    IF S = {} THEN { stored }
    ELSE UNION { SerialOutcomes(S \ {i}, << UpdateResult(stored, log[i]) >>) : i \in S }

ResponseComplete ==
    /\ Len(response) = nItems
    /\ \A i \in Items : Cardinality({ k \in 1..Len(response) : response[k].id = i }) = 1
    /\ \A k \in 1..Len(response) : response[k].score \in 0..100

RankedOrder(list) ==
    \A k \in 1..(Len(list) - 1) :
        \/ list[k].score > list[k + 1].score
        \/ /\ list[k].score = list[k + 1].score
           /\ list[k].id < list[k + 1].id

C3_ScoreInRange ==
    sOut # << >> =>
        LET base == sOut[1].base
            final == sOut[1].final
            sum == base * 10 + VoiceModifier(sFp, sProf.voice_preferences)
        IN  /\ base \in 0..100
            /\ final \in 0..100
            /\ sum < 0 => final = 0
            /\ sum > 1000 => final = 100
            /\ sum \in 0..1000 => final = sum \div 10

C3_Witness ==
    /\ sOut # << >>
    /\ sProf.voice_preferences # << >>
    /\ sOut[1].base * 10 + VoiceModifier(sFp, sProf.voice_preferences) < 0
    /\ sOut[1].final = 0

\* C4: whenever no update is in progress, the stored profile is the result
\* of applying the completed updates one after another in some order.
C4_UpdatesSerialized ==
    (\A w \in Writers : wpc[w] = "idle") =>
        store \in SerialOutcomes(1..Len(log), << >>)

\* C5: the number of process_item tasks in flight never exceeds the
\* concurrency ceiling.
C5_BoundedFanout == InFlight <= MAX_CONCURRENT

StageOrder(a, b) ==
    \/ a = b
    \/ a = "Extract" /\ b = "Score"
    \/ a = "Score" /\ b = "Explain"
    \/ a = "Explain" /\ b = "Done"
    \/ a \in {"Extract", "Score", "Explain"} /\ b = "Failed"

C8_ColdStartNeutral ==
    (sOut # << >> /\ sProf = DefaultProfile) =>
        /\ Abs(sOut[1].final - NEUTRAL_SCORE) <= 1
        /\ \A fp \in FingerprintSamples :
               calculate_score_with_voice_prefs(fp, DefaultProfile) = sOut[1].final

\* C9: a click raises the affinity of each topic of the clicked item by
\* exactly 0.3 and leaves every other topic's affinity as it was.
C9_ClickAddsThreeTenths ==
    \A w \in Writers :
        IdleAfter(w, "click") =>
            LET pre == ProfileOrDefault(wsnap[w]).topic_affinity
                post == wout[w][1].topic_affinity
            IN  /\ DOMAIN post = (DOMAIN pre) \cup wupd[w].topics
                /\ \A k \in DOMAIN post :
                       post[k] = DictGet(pre, k, 0)
                                 + (IF k \in wupd[w].topics THEN 30 ELSE 0)

C9_Witness ==
    \E w \in Writers :
        /\ IdleAfter(w, "click")
        /\ \E k \in DOMAIN ProfileOrDefault(wsnap[w]).topic_affinity :
               /\ k \notin wupd[w].topics
               /\ ProfileOrDefault(wsnap[w]).topic_affinity[k] # 0
        /\ \E k \in wupd[w].topics :
               DictGet(ProfileOrDefault(wsnap[w]).topic_affinity, k, 0) # 0

\* C10: a thumbs-down lowers the affinity of each topic of the item by
\* exactly 0.1 and leaves the text vector as it was.
C10_ThumbsDownSubtractsOneTenth ==
    \A w \in Writers :
        IdleAfter(w, "thumbs_down") =>
            LET pre == ProfileOrDefault(wsnap[w])
                post == wout[w][1]
            IN  /\ \A k \in wupd[w].topics :
                       /\ k \in DOMAIN post.topic_affinity
                       /\ post.topic_affinity[k] = DictGet(pre.topic_affinity, k, 0) - 10
                /\ post.user_text_vector = pre.user_text_vector

C10_Witness ==
    \E w \in Writers :
        /\ IdleAfter(w, "thumbs_down")
        /\ ProfileOrDefault(wsnap[w]).user_text_vector # ZeroVec
        /\ \E k \in wupd[w].topics :
               DictGet(ProfileOrDefault(wsnap[w]).topic_affinity, k, 0) # 0

\* the fingerprints that agree with a clicked item on topics and embedding
ItemsLike(u) ==
    { Fingerprint(1, text, domain, u.topics, u.embedding, prom) :
        text \in { ItemText(1), ItemText(2) },
        domain \in Domains \cup { "" },
        prom \in { 0, 5, 10 } }

\* C11: after a click on an item, an item identical to it scores at least
\* what it scored against the profile the click started from (base score
\* and final score alike).
C11_ClickNeverLowersScore ==
    \A w \in Writers :
        IdleAfter(w, "click") =>
            \A fp \in ItemsLike(wupd[w]) :
                /\ calculate_score(fp, wout[w][1])
                     >= calculate_score(fp, ProfileOrDefault(wsnap[w]))
                /\ calculate_score_with_voice_prefs(fp, wout[w][1])
                     >= calculate_score_with_voice_prefs(fp, ProfileOrDefault(wsnap[w]))

C11_Witness ==
    \E w \in Writers :
        /\ IdleAfter(w, "click")
        /\ wsnap[w] # << >>
        /\ cosine_similarity(wupd[w].embedding, wsnap[w][1].user_text_vector)
             = cosine_similarity(wupd[w].embedding, wout[w][1].user_text_vector)
        /\ \E fp \in ItemsLike(wupd[w]) :
               calculate_score(fp, wout[w][1]) > calculate_score(fp, wsnap[w][1])

\* the fingerprint without the topics a voice preference names
WithoutTopic(fp, pref) ==
    [fp EXCEPT !.topics = { t \in fp.topics : Lower(t) # Lower(pref.topic) }]

\* the score before the clamp, in tenths of a point
Unclamped(fp, profile) ==
    calculate_score(fp, profile) * 10 + VoiceModifier(fp, profile.voice_preferences)

ClampReducesGap(fp, pref, profile) ==
    \/ Unclamped(fp, profile) < 0
    \/ Unclamped(WithoutTopic(fp, pref), profile) > 1000

DislikeGap(fp, pref, profile) ==
    (calculate_score_with_voice_prefs(WithoutTopic(fp, pref), profile)
       - calculate_score_with_voice_prefs(fp, profile)) * 10

DislikesOf(fp, profile) ==
    { k \in 1..Len(profile.voice_preferences) :
        /\ profile.voice_preferences[k].sentiment = "dislike"
        /\ TopicListed(fp.topics, profile.voice_preferences[k].topic) }

\* C12 as stated: with a voice preference that dislikes T at intensity i, an
\* item carrying T scores at least 20*i points below the same item without
\* T, unless the clamp to 0..100 reduces the gap.
C12_DislikeGapAnyProfile ==
    sOut # << >> =>
        \A k \in DislikesOf(sFp, sProf) :
            LET pref == sProf.voice_preferences[k]
            IN  \/ ClampReducesGap(sFp, pref, sProf)
                \/ DislikeGap(sFp, pref, sProf) >= pref.intensity * 20

\* C12 amended: the gap of 20*i points is kept when the profile's learned
\* affinity for T is not positive (as it is right after the onboarding),
\* unless the clamp reduces it.
C12_DislikeGapNonPositiveAffinity ==
    sOut # << >> =>
        \A k \in DislikesOf(sFp, sProf) :
            LET pref == sProf.voice_preferences[k]
                named == sFp.topics \ WithoutTopic(sFp, pref).topics
            IN  SumOver(sProf.topic_affinity, named) <= 0 =>
                    \/ ClampReducesGap(sFp, pref, sProf)
                    \/ DislikeGap(sFp, pref, sProf) >= pref.intensity * 20

C12_Witness ==
    /\ sOut # << >>
    /\ DislikesOf(sFp, sProf) # {}
    /\ \A k \in DislikesOf(sFp, sProf) :
           LET pref == sProf.voice_preferences[k]
           IN  /\ ~ClampReducesGap(sFp, pref, sProf)
               /\ DictGet(sProf.topic_affinity, "crypto", 0) = 0
               /\ DislikeGap(sFp, pref, sProf) = pref.intensity * 20

Range(seq) == { seq[k] : k \in 1..Len(seq) }

\* the affinity keys a list of topic preferences names
NamedKeys(prefs) ==
    UNION { {prefs[k].topic} \cup Range(prefs[k].subtopics)
              \cup Range(prefs[k].avoid_subtopics) : k \in 1..Len(prefs) }

\* the writer has just saved the onboarding result the profile already held
SecondApplication(w) ==
    /\ IdleAfter(w, "voice")
    /\ wsnap[w] # << >>
    /\ wsnap[w][1].voice_preferences = wupd[w].prefs

\* C13 as stated: saving the same onboarding result a second time moves the
\* affinity of each topic it names further in the preference's direction.
C13_SecondOnboardingCompounds ==
    \A w \in Writers :
        SecondApplication(w) =>
            \A k \in 1..Len(wupd[w].prefs) :
                LET pref == wupd[w].prefs[k]
                    pre == DictGet(wsnap[w][1].topic_affinity, pref.topic, 0)
                    post == DictGet(wout[w][1].topic_affinity, pref.topic, 0)
                IN  IF pref.sentiment = "dislike" THEN post < pre ELSE post > pre

\* C13 amended: saving an onboarding result sets the affinity of each topic
\* it names to the signed intensity (subtopics to 0.8 of it, avoided
\* subtopics to -0.5) whatever was stored before, and leaves every other
\* affinity as it was; saving it again changes none of these values.
C13_OnboardingReplaces ==
    \A w \in Writers :
        IdleAfter(w, "voice") =>
            LET prefs == wupd[w].prefs
                pre == ProfileOrDefault(wsnap[w]).topic_affinity
                post == wout[w][1].topic_affinity
            IN  /\ DOMAIN post = (DOMAIN pre) \cup NamedKeys(prefs)
                /\ \A k \in (DOMAIN pre) \ NamedKeys(prefs) : post[k] = pre[k]
                /\ \A k \in 1..Len(prefs) :
                       LET signed == IF prefs[k].sentiment = "dislike"
                                     THEN 0 - prefs[k].intensity * 10
                                     ELSE prefs[k].intensity * 10
                       IN  /\ post[prefs[k].topic] = signed
                           /\ \A sub \in Range(prefs[k].subtopics) :
                                  post[sub] = (signed * 8) \div 10
                           /\ \A av \in Range(prefs[k].avoid_subtopics) :
                                  post[av] = -50

C13_Witness ==
    \E w \in Writers :
        /\ SecondApplication(w)
        /\ Len(log) = 3
        /\ log[2].kind = "click"
        /\ \E k \in NamedKeys(wupd[w].prefs) :
               /\ k \in DOMAIN wsnap[w][1].topic_affinity
               /\ wsnap[w][1].topic_affinity[k] # wout[w][1].topic_affinity[k]

\* the fingerprint the response entry e was scored from
FingerprintOf(e) ==
    Fingerprint(e.id, ItemText(e.id), ItemDomain(e.id), e.topics,
                IF e.id \in embFail THEN ZeroVec ELSE ItemEmbedding(e.id),
                ItemProminence(e.id))

C15_PutThenGetHits ==
    \A t \in CacheTasks :
        (cout[t] # << >> /\ cout[t][1].prior # << >>
           /\ cout[t][1].at < cout[t][1].prior[1].at + CACHE_TTL) =>
            /\ cout[t][1].hit
            /\ cout[t][1].emb = cout[t][1].prior[1].emb

EventsAmong(n) == { j \in 1..n : log[j].kind # "voice" }

\* the profiles that contain every event acknowledged before the request
\* arrived: the outcomes of applying, one after another, a set of completed
\* updates that includes those events
ProfilesWithAcked ==
    UNION { { ProfileOrDefault(x) : x \in SerialOutcomes(S, << >>) } :
              S \in { T \in SUBSET (1..Len(log)) : EventsAmong(ackedBefore) \subseteq T } }

\* C17: a request that arrives after an event was acknowledged scores
\* against a profile that contains that event's update.
C17_NextRequestSeesUpdate ==
    stage \in {"Score", "Explain", "Done"} => reqProfile \in ProfilesWithAcked

\* C18: every update that is applied writes an interaction count one above
\* the one it read, and the stored interaction count never decreases.
C18_InteractionCountGrows ==
    [][ \A w \in Writers :
          (wpc[w] = "loaded" /\ wpc'[w] = "idle") =>
              /\ store'[1].interaction_count
                   = ProfileOrDefault(wsnap[w]).interaction_count + 1
              /\ store'[1].interaction_count
                   >= ProfileOrDefault(store).interaction_count ]_vars

---------------------------------------------------------------------------
(* Specifications of the extension *)

backendVars == << profileVars, pipelineVars, scoreVars, cacheVars >>

BackendIdle == ProfileInit /\ PipelineIdle /\ ScoreIdle /\ CacheIdle

\* one content script on one page
InitContent ==
    /\ BackendIdle
    /\ ContentInit
    /\ ExtensionWorkerIdle
    /\ ExtensionSocketIdle
    /\ ExtensionSessionIdle
    /\ ExtensionTrackerIdle

NextContent ==
    ContentNext /\ UNCHANGED << backendVars, workerVars, socketVars, sessionVars,
                              trackerVars >>

SpecContent == InitContent /\ [][NextContent]_vars

\* the service worker from its start
InitWorker ==
    /\ BackendIdle
    /\ ExtensionContentIdle
    /\ WorkerInit
    /\ ExtensionSocketIdle
    /\ ExtensionSessionIdle
    /\ ExtensionTrackerIdle

NextWorker ==
    WorkerNext /\ UNCHANGED << backendVars, contentVars, socketVars, sessionVars,
                             trackerVars >>

SpecWorker == InitWorker /\ [][NextWorker]_vars

\* one ReconnectingWebSocket
InitSocket ==
    /\ BackendIdle
    /\ ExtensionContentIdle
    /\ ExtensionWorkerIdle
    /\ SocketInit
    /\ ExtensionSessionIdle
    /\ ExtensionTrackerIdle

NextSocket ==
    SocketNext /\ UNCHANGED << backendVars, contentVars, workerVars, sessionVars,
                             trackerVars >>

SpecSocket == InitSocket /\ [][NextSocket]_vars

\* one getValidSession call against sampled localStorage contents
InitSession ==
    /\ BackendIdle
    /\ ExtensionContentIdle
    /\ ExtensionWorkerIdle
    /\ ExtensionSocketIdle
    /\ SessionInit
    /\ ExtensionTrackerIdle

NextSession ==
    SessionNext /\ UNCHANGED << backendVars, contentVars, workerVars, socketVars,
                              trackerVars >>

SpecSession == InitSession /\ [][NextSession]_vars

\* the activity tracker of one page, from the end of init()
InitTracker ==
    /\ BackendIdle
    /\ ExtensionContentIdle
    /\ ExtensionWorkerIdle
    /\ ExtensionSocketIdle
    /\ ExtensionSessionIdle
    /\ TrackerInit

NextTracker ==
    TrackerNext /\ UNCHANGED << backendVars, contentVars, workerVars, socketVars,
                               sessionVars >>

SpecTracker == InitTracker /\ [][NextTracker]_vars

---------------------------------------------------------------------------
(* Properties of the extension *)

HighlightedElements == { e \in InDocument(csDom) : csDom[e].hl }

BadgedElements == { e \in InDocument(csDom) : csDom[e].badge }

\* the elements the first TOP_N entries of the rendered list were read from
RenderedElements ==
    { TopItems(csRendered)[i].el : i \in 1..Len(TopItems(csRendered)) }

HighlightCountBound ==
    /\ Cardinality(HighlightedElements) <= TOP_N
    /\ HighlightedElements = BadgedElements

\* C21: after any sequence of analyses at most five elements of the page carry
\* the highlight class and the badge, and they are the elements of the first
\* five entries of the scored list rendered last (those still in the document)
C21_HighlightsAreTopFive ==
    /\ HighlightCountBound
    /\ HighlightedElements = RenderedElements \cap InDocument(csDom)

\* C26: at most one extractAndAnalyze run is in progress, and isAnalyzing is
\* true exactly while one is: it is false again after a run has ended, however
\* it ended
C26_OneRunAtATime ==
    /\ Len(csRuns) <= 1
    /\ csIsAnalyzing <=> (Len(csRuns) = 1)

\* a run ended with a messaging exception and a later trigger started another
C26_Witness ==
    /\ csLastEnd = "exception"
    /\ Len(csRuns) = 1
    /\ csIsAnalyzing

\* no run is in progress and nothing the script has armed will start one
ContentQuiet == csLoaded /\ csRuns = << >> /\ csTimers = 0

\* C23: a preferences-updated notification that reaches the content script is
\* followed by a re-analysis started after it: the script never comes to rest
\* owing one, also when the notification arrived during an analysis
C23_NotificationLeadsToAnalysis == ContentQuiet => ~csOwed

\* C25: the timers armed by a burst of significant mutation batches (each
\* batch arriving while a timer of the burst is pending) start one re-analysis
C25_BurstLeadsToOneAnalysis == csBurstRuns <= 1

\* C22: a VOICE_SESSION_COMPLETE message is handled by the service worker
\* (answered with success) and makes it send REFRESH_ANALYSIS to every open tab
C22_VoiceSessionCompleteBroadcast ==
    swLast.type = "VOICE_SESSION_COMPLETE" =>
        swLast.success /\ swLast.refreshed = Tabs

\* C27: while a token is persisted in chrome.storage (and so no LOGOUT has
\* been handled since it was stored), every ANALYZE_PAGE and LOG_EVENT handler
\* uses that token, also before the startup read's callback has run
C27_PersistedTokenUsed ==
    (swLast.type \in { "ANALYZE_PAGE", "LOG_EVENT" } /\ swLast.persisted # NoToken)
        => swLast.token = swLast.persisted

\* C28: from the handling of LOGOUT to the next AUTH_SUCCESS authState holds
\* no token, whenever the startup read's callback runs
C28_LogoutSticks == swLoggedOut => swAuthState = NoToken

\* C29: retryCount never exceeds maxRetries, whichever way connections fail
C29_RetryCountBounded == rwsRetryCount <= maxRetries

\* C30: once close() has been called no WebSocket is constructed any more,
\* not even by a reconnect timer armed before the call
C30_NoConnectionAfterClose == ~rwsOpenedAfterClose

\* the localStorage entry holds a number n
Holds(entry) == entry # << >> /\ entry[1].kind = "digits"

\* the conditions under which a session may be handed out, read off the
\* localStorage contents and the clock at the call and the backend's answer
SessionUsable ==
    /\ vsCall.stored.room_name \notin { << >>, << "" >> }
    /\ vsCall.stored.token \notin { << >>, << "" >> }
    /\ Holds(vsCall.stored.token_expiry)
    /\ vsCall.stored.token_expiry[1].n - vsCall.checkedAt > tokenExpiryBufferMs
    /\ Holds(vsCall.stored.session_start)
    /\ vsCall.checkedAt - vsCall.stored.session_start[1].n < sessionTimeoutMs
    /\ vsCall.validated
    /\ vsCall.validation.valid

\* C24: getValidSession returns the cached session exactly when room name and
\* token are cached, the expiry is known and more than tokenExpiryBufferMs
\* ahead, the session is younger than sessionTimeoutMs and the backend
\* reported it valid; otherwise it returns null
C24_ValidSessionOnlyWhenFresh ==
    vsCall.pc = "returned" =>
        /\ vsCall.result = (IF SessionUsable THEN "session" ELSE "null")
        /\ vsCall.result = "session" =>
               /\ vsCall.cached # NoSession
               /\ vsCall.cached[1].room_name = vsCall.stored.room_name[1]
               /\ vsCall.cached[1].token = vsCall.stored.token[1]

\* a session was returned one millisecond before the buffer would have
\* rejected its token
C24_Witness ==
    /\ vsCall.result = "session"
    /\ vsCall.stored.token_expiry[1].n - vsCall.checkedAt = tokenExpiryBufferMs + 1

\* C31: for a socket made by createWebSocketConnection with its default
\* onError, once a connection attempt has failed with retryCount at
\* maxRetries, the cached session has been cleared, the caller's
\* onSessionExpired has been invoked, and no reconnect is scheduled any more
C31_ExhaustedRetriesExpireSession ==
    (rwsFailedAtMax /\ ~rwsCustomOnError) =>
        /\ rwsSessionCleared
        /\ rwsExpiredCalled
        /\ ~rwsScheduledAfter

\* the same when every failure is an error event of a constructed WebSocket
ExhaustedRetriesExpireSessionOnError ==
    rwsUrlOk => C31_ExhaustedRetriesExpireSession

\* C32: a getValidSession that found the token expired or the session stale
\* leaves no cached session key behind; one that went to the backend and got
\* a validation that is not valid has cleared every key when the validation
\* sets should_clear_cache and has left the cache as it found it otherwise,
\* as after a network error or a non-OK status
C32_CacheClearedOnlyWhenTold ==
    (vsCall.pc = "returned" /\ vsCall.cached # NoSession) =>
        /\ ~vsCall.validated => vsStorage = EmptyStorage
        /\ (vsCall.validated /\ ~vsCall.validation.valid) =>
               vsStorage = IF vsCall.validation.should_clear_cache
                           THEN EmptyStorage ELSE vsCall.stored
        /\ (vsCall.validated /\ vsCall.validation.valid) => vsStorage = vsCall.stored

C32_Witness ==
    /\ vsCall.pc = "returned"
    /\ vsCall.validated
    /\ vsCall.validation.error = "NETWORK_ERROR"
    /\ vsStorage = vsCall.stored
    /\ vsStorage.user_id # << >>

---------------------------------------------------------------------------
(* Properties of the tracker *)

\* every activity added is in the buffer, in a sync awaiting its fetch, or
\* delivered
NothingDropped ==
    1..(trNextId - 1) =
        Activities(trBuffer) \cup UNION { Activities(b) : b \in trInFlight }
                             \cup trDelivered

\* C33: whatever syncs have failed, the in-memory buffer holds its
\* activities in the order they were added, the ones a failed sync took ahead
\* of the ones added while its request was in flight, and no activity is lost
C33_FailedSyncKeepsBufferOrder ==
    /\ InOrderOfAddition(trBuffer)
    /\ NothingDropped

\* the same while no syncToBackend has started during another one's fetch
FailedSyncKeepsBufferOrderAlone ==
    ~trOverlapped => C33_FailedSyncKeepsBufferOrder

===========================================================================
